---- MODULE Spec2Model ----
(***************************************************************************)
(* A model of the packer archive codec (ecthiender/packer): the pack and   *)
(* unpack drivers of src/src/archive, the BAG and TAR backends of          *)
(* src/src/backend, and their header codecs.                               *)
(*                                                                         *)
(* Bytes are the integers 0..255.  A PathBuf is the sequence of its bytes. *)
(* An Option<T> is <<>> for None and <<v>> for Some(v).  A Result is a     *)
(* record with an `ok` field.  Unsigned and signed integers of the program *)
(* are TLA+ integers; every value the model draws fits 31 bits, and the    *)
(* encoders and decoders below keep the wire width (4, 8 or 12 bytes).     *)
(* The CRC register exceeds 31 bits, so a checksum value is the record     *)
(* [hi, lo] of its two 16-bit halves.                                      *)
(***************************************************************************)
EXTENDS Integers, Sequences, FiniteSets, TLC

\* ------------------------------------------------------------------------
\* Bytes and bit operations
\* ------------------------------------------------------------------------

Byte == 0..255

Zeros(n) == [i \in 1..n |-> 0]

AllZero(bytes) == \A i \in 1..Len(bytes) : bytes[i] = 0

\* bytes[a..b) with Rust's 0-based half-open indexing
Slice(bytes, a, b) == SubSeq(bytes, a + 1, b)

\* `let v = ...;` followed by the code that uses v; v is evaluated once
With(v, Body(_)) == CHOOSE y \in {Body(x) : x \in {v}} : TRUE

RECURSIVE XorNat(_, _, _)
XorNat(a, b, n) ==
    IF n = 0 THEN 0
    ELSE ((a + b) % 2) + 2 * XorNat(a \div 2, b \div 2, n - 1)

Xor4 == [a \in 0..15 |-> [b \in 0..15 |-> XorNat(a, b, 4)]]

Xor8Table ==
    [a \in 0..255 |-> [b \in 0..255 |->
        16 * Xor4[a \div 16][b \div 16] + Xor4[a % 16][b % 16]]]

Xor8(a, b) == Xor8Table[a][b]

\* ------------------------------------------------------------------------
\* CRC-32 (crc_any::CRCu32::crc32: reflected, polynomial 0xEDB88320,
\* initial value and final xor 0xFFFFFFFF).  The register is kept as its
\* four bytes, least significant first.
\* ------------------------------------------------------------------------

CrcPoly == <<32, 131, 184, 237>>

CrcShiftR(c) ==
    << (c[1] \div 2) + 128 * (c[2] % 2),
       (c[2] \div 2) + 128 * (c[3] % 2),
       (c[3] \div 2) + 128 * (c[4] % 2),
       (c[4] \div 2) >>

CrcXor(c, d) == <<Xor8(c[1], d[1]), Xor8(c[2], d[2]), Xor8(c[3], d[3]), Xor8(c[4], d[4])>>

CrcBitStep(c) == IF c[1] % 2 = 1 THEN CrcXor(CrcShiftR(c), CrcPoly) ELSE CrcShiftR(c)

RECURSIVE CrcBitSteps(_, _)
CrcBitSteps(c, n) == IF n = 0 THEN c ELSE CrcBitSteps(CrcBitStep(c), n - 1)

CrcTable == [n \in 0..255 |-> CrcBitSteps(<<n, 0, 0, 0>>, 8)]

CrcUpdate(c, byte) ==
    With(c, LAMBDA reg :
    With(CrcTable[Xor8(reg[1], byte)], LAMBDA t :
        <<Xor8(reg[2], t[1]), Xor8(reg[3], t[2]), Xor8(reg[4], t[3]), t[4]>>))

CrcUpdate8(c, bytes, i) ==
    CrcUpdate(CrcUpdate(CrcUpdate(CrcUpdate(CrcUpdate(CrcUpdate(CrcUpdate(CrcUpdate(
        c, bytes[i]), bytes[i + 1]), bytes[i + 2]), bytes[i + 3]), bytes[i + 4]),
        bytes[i + 5]), bytes[i + 6]), bytes[i + 7])

\* The digest of a run of bytes is the digest of its second part started
\* from the digest of its first part.  Function application evaluates its
\* arguments first, which keeps the evaluation of a long digest shallow.
CrcDigest(bytes) ==
    LET fold[i \in Nat, n \in Nat, c \in Seq(Byte)] ==
            IF n = 0 THEN c
            ELSE IF n < 8 THEN fold[i + 1, n - 1, CrcUpdate(c, bytes[i])]
            ELSE IF n = 8 THEN CrcUpdate8(c, bytes, i)
            ELSE IF n < 16 THEN fold[i + 8, n - 8, fold[i, 8, c]]
            ELSE fold[i + 8 * (n \div 16), n - 8 * (n \div 16), fold[i, 8 * (n \div 16), c]]
    IN  fold[1, Len(bytes), <<255, 255, 255, 255>>]

\* crc.digest(bytes); crc.get_crc()
crc32(bytes) ==
    With(CrcDigest(bytes), LAMBDA c :
        [hi |-> (255 - c[4]) * 256 + (255 - c[3]),
         lo |-> (255 - c[2]) * 256 + (255 - c[1])])

\* ------------------------------------------------------------------------
\* Little-endian integer codecs
\* ------------------------------------------------------------------------

RECURSIVE to_le_bytes(_, _)
to_le_bytes(v, n) ==
    IF n = 0 THEN <<>> ELSE <<v % 256>> \o to_le_bytes(v \div 256, n - 1)

RECURSIVE from_le_bytes(_)
from_le_bytes(bytes) ==
    IF Len(bytes) = 0 THEN 0
    ELSE bytes[1] + 256 * from_le_bytes(Tail(bytes))

Complement(bytes) == [i \in 1..Len(bytes) |-> 255 - bytes[i]]

\* two's complement of a signed value on n bytes
signed_to_le_bytes(v, n) ==
    IF v >= 0 THEN to_le_bytes(v, n) ELSE Complement(to_le_bytes(-(v + 1), n))

signed_from_le_bytes(bytes) ==
    IF bytes[Len(bytes)] >= 128
    THEN -(from_le_bytes(Complement(bytes))) - 1
    ELSE from_le_bytes(bytes)

checksum_to_le_bytes(c) == <<c.lo % 256, c.lo \div 256, c.hi % 256, c.hi \div 256>>

checksum_from_le_bytes(bytes) ==
    [hi |-> bytes[4] * 256 + bytes[3], lo |-> bytes[2] * 256 + bytes[1]]

ZeroChecksum == [hi |-> 0, lo |-> 0]

\* src/backend/bag/byteorder.rs
bag_u32_to_bytes(value) == to_le_bytes(value, 4)

bag_bytes_to_u32(input) == from_le_bytes(input)

bag_u64_to_bytes(value) == to_le_bytes(value, 8)

bag_bytes_to_u64(input) == from_le_bytes(input)

bag_i64_to_bytes(value) == signed_to_le_bytes(value, 8)

bag_bytes_to_i64(input) == signed_from_le_bytes(input)

\* str::from_utf8 succeeds.  The length of the character a byte starts:
\* 0 for a continuation byte and for a byte no character starts with.
Utf8Len(c) ==
    IF c < 128 THEN 1
    ELSE IF c \in 194..223 THEN 2
    ELSE IF c \in 224..239 THEN 3
    ELSE IF c \in 240..244 THEN 4
    ELSE 0

IsCont(c) == c \in 128..191

IsUtf8(bytes) ==
    \A i \in 1..Len(bytes) :
        LET c == bytes[i]
        IN  IF IsCont(c)
            THEN \E k \in 1..3 :
                    /\ i - k >= 1
                    /\ Utf8Len(bytes[i - k]) > k
                    /\ \A m \in 1..(k - 1) : IsCont(bytes[i - m])
            ELSE /\ Utf8Len(c) >= 1
                 /\ \A k \in 1..(Utf8Len(c) - 1) : i + k <= Len(bytes) /\ IsCont(bytes[i + k])
                 /\ (c = 224 => bytes[i + 1] >= 160)
                 /\ (c = 237 => bytes[i + 1] <= 159)
                 /\ (c = 240 => bytes[i + 1] >= 144)
                 /\ (c = 244 => bytes[i + 1] <= 143)

\* path.to_str().map(as_bytes).unwrap_or_default()
bag_path_to_bytes(path) == IF IsUtf8(path) THEN path ELSE <<>>

bag_bytes_to_path(array) == IF IsUtf8(array) THEN array ELSE <<>>

\* src/byteorder.rs (the TAR backend's padded fields)
tar_u32_to_bytes(value) == to_le_bytes(value, 4) \o Zeros(4)

tar_bytes_to_u32(input) == from_le_bytes(Slice(input, 0, 4))

tar_u64_to_bytes(value) == to_le_bytes(value, 8) \o Zeros(4)

tar_bytes_to_u64(input) == from_le_bytes(Slice(input, 0, 8))

tar_i64_to_bytes(value) == signed_to_le_bytes(value, 8) \o Zeros(4)

tar_bytes_to_i64(input) == signed_from_le_bytes(Slice(input, 0, 8))

Min(a, b) == IF a < b THEN a ELSE b

tar_path_to_bytes(path) ==
    IF ~IsUtf8(path) THEN Zeros(100)
    ELSE With(Min(Len(path), 100), LAMBDA len :
            Slice(path, 0, len) \o Zeros(100 - len))

FirstZero(array) ==
    IF \E i \in 1..Len(array) : array[i] = 0
    THEN (CHOOSE i \in 1..Len(array) : array[i] = 0 /\ \A j \in 1..(i - 1) : array[j] # 0) - 1
    ELSE Len(array)

tar_bytes_to_path(array) ==
    With(Slice(array, 0, FirstZero(array)), LAMBDA valid :
        IF IsUtf8(valid) THEN valid ELSE <<>>)

\* ------------------------------------------------------------------------
\* BAG entry header (src/backend/bag/header.rs)
\* ------------------------------------------------------------------------

None == <<>>

Some(v) == <<v>>

\* `header.type_flag as u8`, with the discriminants of the enum
bag_type_flag_as_u8(flag) ==
    CASE flag = "Regular" -> 0
      [] flag = "HardLink" -> 1
      [] flag = "SymLink" -> 2

bag_TypeFlag_from_byte(byte) ==
    CASE byte = 48 \/ byte = 0 -> [ok |-> TRUE, flag |-> "Regular"]
      [] byte = 49 \/ byte = 1 -> [ok |-> TRUE, flag |-> "HardLink"]
      [] byte = 50 \/ byte = 2 -> [ok |-> TRUE, flag |-> "SymLink"]
      [] OTHER -> [ok |-> FALSE, flag |-> "Invalid typeflag byte"]

TypeFlag_new(metadata) ==
    IF metadata.kind = "symlink" THEN "SymLink"
    ELSE IF metadata.kind = "dir" THEN "HardLink"
    ELSE "Regular"

FileHeaderLL_new(header) ==
    With(bag_path_to_bytes(header.file_name), LAMBDA file_name_bytes :
    With(IF header.link_name = None THEN <<>>
         ELSE bag_path_to_bytes(header.link_name[1]), LAMBDA link_name_bytes :
        [file_name |-> file_name_bytes,
         file_name_size |-> bag_u64_to_bytes(Len(file_name_bytes)),
         file_size |-> bag_u64_to_bytes(header.file_size),
         file_mode |-> bag_u32_to_bytes(header.file_mode),
         user_id |-> bag_u32_to_bytes(header.user_id),
         group_id |-> bag_u32_to_bytes(header.group_id),
         created_at |-> bag_i64_to_bytes(header.created_at),
         last_modified |-> bag_i64_to_bytes(header.last_modified),
         type_flag |-> bag_type_flag_as_u8(header.type_flag),
         link_name |-> link_name_bytes,
         link_name_size |-> bag_u64_to_bytes(Len(link_name_bytes)),
         checksum |-> Zeros(4)]))

FileHeaderLL_to_bytes(ll) ==
    ll.file_name_size \o ll.file_size \o ll.file_mode \o ll.user_id \o ll.group_id
      \o ll.created_at \o ll.last_modified \o <<ll.type_flag>> \o ll.link_name_size
      \o ll.checksum

\* A faulty variant of calculate_checksum: the digest of the whole 64-byte block
FileHeaderLL_calculate_checksum_of_block(ll) ==
    crc32(FileHeaderLL_to_bytes(ll) \o Zeros(64 - 57))

FileHeaderLL_calculate_checksum(ll) == crc32(FileHeaderLL_to_bytes(ll))

FileHeaderLL_set_checksum(ll, checksum) ==
    [ll EXCEPT !.checksum = checksum_to_le_bytes(checksum)]

FileHeaderLL_serialize(ll) ==
    [header |-> FileHeaderLL_to_bytes(ll) \o Zeros(64 - 57),
     file_name |-> ll.file_name,
     link_name |-> ll.link_name]

FileHeaderLL_from_bytes(bytes) ==
    IF Len(bytes) # 64 THEN [ok |-> FALSE]
    ELSE [ok |-> TRUE,
          ll |-> [file_name |-> <<>>,
                  file_name_size |-> Slice(bytes, 0, 8),
                  file_size |-> Slice(bytes, 8, 16),
                  file_mode |-> Slice(bytes, 16, 20),
                  user_id |-> Slice(bytes, 20, 24),
                  group_id |-> Slice(bytes, 24, 28),
                  created_at |-> Slice(bytes, 28, 36),
                  last_modified |-> Slice(bytes, 36, 44),
                  type_flag |-> bytes[44 + 1],
                  link_name |-> <<>>,
                  link_name_size |-> Slice(bytes, 45, 53),
                  checksum |-> Slice(bytes, 53, 57)]]

FileHeader_new(file_name, metadata, link_name) ==
    [file_name |-> file_name,
     file_size |-> metadata.len,
     file_mode |-> metadata.mode,
     user_id |-> metadata.uid,
     group_id |-> metadata.gid,
     created_at |-> metadata.ctime,
     last_modified |-> metadata.mtime,
     type_flag |-> TypeFlag_new(metadata),
     link_name |-> link_name]

FileHeader_serialize(header) ==
    With(FileHeaderLL_new(header), LAMBDA header_ll :
        With(FileHeaderLL_calculate_checksum(header_ll), LAMBDA checksum :
            FileHeaderLL_serialize(FileHeaderLL_set_checksum(header_ll, checksum))))

NoHeader == [file_name |-> <<>>, file_size |-> 0, file_mode |-> 0, user_id |-> 0,
             group_id |-> 0, created_at |-> 0, last_modified |-> 0,
             type_flag |-> "Regular", link_name |-> None]

\* Err results carry the error kind, the name the message shows and the two
\* checksums; Ok results carry the header and the two sizes.
\* A faulty variant of deserialize: the type flag is interpreted before the
\* checksum is compared
FileHeader_deserialize_flag_first(bytes) ==
    With(FileHeaderLL_from_bytes(bytes), LAMBDA parsed :
        IF ~parsed.ok
        THEN [ok |-> FALSE, err |-> "length", err_name |-> <<>>,
              stored_checksum |-> ZeroChecksum, calc_checksum |-> ZeroChecksum,
              header |-> NoHeader, file_name_size |-> 0, link_name_size |-> 0]
        ELSE
        With(checksum_from_le_bytes(parsed.ll.checksum), LAMBDA stored_checksum :
        With(FileHeaderLL_set_checksum(parsed.ll, ZeroChecksum), LAMBDA ll0 :
        With(FileHeaderLL_calculate_checksum(ll0), LAMBDA calc_checksum :
        With(bag_TypeFlag_from_byte(ll0.type_flag), LAMBDA type_flag :
            IF ~type_flag.ok
            THEN [ok |-> FALSE, err |-> "typeflag", err_name |-> <<>>,
                  stored_checksum |-> stored_checksum, calc_checksum |-> calc_checksum,
                  header |-> NoHeader, file_name_size |-> 0, link_name_size |-> 0]
            ELSE IF calc_checksum # stored_checksum
            THEN [ok |-> FALSE, err |-> "checksum",
                  err_name |-> bag_bytes_to_path(ll0.file_name),
                  stored_checksum |-> stored_checksum, calc_checksum |-> calc_checksum,
                  header |-> NoHeader, file_name_size |-> 0, link_name_size |-> 0]
            ELSE [ok |-> TRUE, err |-> "", err_name |-> <<>>,
                  stored_checksum |-> stored_checksum, calc_checksum |-> calc_checksum,
                  header |-> [file_name |-> bag_bytes_to_path(ll0.file_name),
                              file_size |-> bag_bytes_to_u64(ll0.file_size),
                              file_mode |-> bag_bytes_to_u32(ll0.file_mode),
                              user_id |-> bag_bytes_to_u32(ll0.user_id),
                              group_id |-> bag_bytes_to_u32(ll0.group_id),
                              created_at |-> bag_bytes_to_i64(ll0.created_at),
                              last_modified |-> bag_bytes_to_i64(ll0.last_modified),
                              type_flag |-> type_flag.flag,
                              link_name |-> None],
                  file_name_size |-> bag_bytes_to_u64(ll0.file_name_size),
                  link_name_size |-> bag_bytes_to_u64(ll0.link_name_size)])))))

FileHeader_deserialize(bytes) ==
    With(FileHeaderLL_from_bytes(bytes), LAMBDA parsed :
        IF ~parsed.ok
        THEN [ok |-> FALSE, err |-> "length", err_name |-> <<>>,
              stored_checksum |-> ZeroChecksum, calc_checksum |-> ZeroChecksum,
              header |-> NoHeader, file_name_size |-> 0, link_name_size |-> 0]
        ELSE
        With(checksum_from_le_bytes(parsed.ll.checksum), LAMBDA stored_checksum :
        With(FileHeaderLL_set_checksum(parsed.ll, ZeroChecksum), LAMBDA ll0 :
        With(FileHeaderLL_calculate_checksum(ll0), LAMBDA calc_checksum :
        With(bag_TypeFlag_from_byte(ll0.type_flag), LAMBDA type_flag :
            IF calc_checksum # stored_checksum
            THEN [ok |-> FALSE, err |-> "checksum",
                  err_name |-> bag_bytes_to_path(ll0.file_name),
                  stored_checksum |-> stored_checksum, calc_checksum |-> calc_checksum,
                  header |-> NoHeader, file_name_size |-> 0, link_name_size |-> 0]
            ELSE IF ~type_flag.ok
            THEN [ok |-> FALSE, err |-> "typeflag", err_name |-> <<>>,
                  stored_checksum |-> stored_checksum, calc_checksum |-> calc_checksum,
                  header |-> NoHeader, file_name_size |-> 0, link_name_size |-> 0]
            ELSE [ok |-> TRUE, err |-> "", err_name |-> <<>>,
                  stored_checksum |-> stored_checksum, calc_checksum |-> calc_checksum,
                  header |-> [file_name |-> bag_bytes_to_path(ll0.file_name),
                              file_size |-> bag_bytes_to_u64(ll0.file_size),
                              file_mode |-> bag_bytes_to_u32(ll0.file_mode),
                              user_id |-> bag_bytes_to_u32(ll0.user_id),
                              group_id |-> bag_bytes_to_u32(ll0.group_id),
                              created_at |-> bag_bytes_to_i64(ll0.created_at),
                              last_modified |-> bag_bytes_to_i64(ll0.last_modified),
                              type_flag |-> type_flag.flag,
                              link_name |-> None],
                  file_name_size |-> bag_bytes_to_u64(ll0.file_name_size),
                  link_name_size |-> bag_bytes_to_u64(ll0.link_name_size)])))))

\* ------------------------------------------------------------------------
\* TAR entry header (src/header.rs)
\* ------------------------------------------------------------------------

tar_TypeFlag_as_byte(flag) ==
    CASE flag = "Regular" -> 48
      [] flag = "HardLink" -> 49
      [] flag = "SymLink" -> 50

tar_TypeFlag_from_byte(byte) ==
    CASE byte = 48 \/ byte = 0 -> [ok |-> TRUE, flag |-> "Regular"]
      [] byte = 49 \/ byte = 1 -> [ok |-> TRUE, flag |-> "HardLink"]
      [] byte = 50 \/ byte = 2 -> [ok |-> TRUE, flag |-> "SymLink"]
      [] OTHER -> [ok |-> FALSE, flag |-> "Invalid typeflag byte"]

Header_new(file_name, metadata) ==
    [file_name |-> file_name,
     file_mode |-> metadata.mode,
     user_id |-> metadata.uid,
     group_id |-> metadata.gid,
     file_size |-> metadata.len,
     last_modified |-> metadata.mtime,
     type_flag |-> TypeFlag_new(metadata)]

HeaderLL_new(header) ==
    [file_name |-> tar_path_to_bytes(header.file_name),
     file_mode |-> tar_u32_to_bytes(header.file_mode),
     user_id |-> tar_u32_to_bytes(header.user_id),
     group_id |-> tar_u32_to_bytes(header.group_id),
     file_size |-> tar_u64_to_bytes(header.file_size),
     last_modified |-> tar_i64_to_bytes(header.last_modified),
     checksum |-> Zeros(8),
     type_flag |-> tar_TypeFlag_as_byte(header.type_flag),
     link_name |-> Zeros(100)]

HeaderLL_to_bytes(ll) ==
    ll.file_name \o ll.file_mode \o ll.user_id \o ll.group_id \o ll.file_size
      \o ll.last_modified \o ll.checksum \o <<ll.type_flag>> \o ll.link_name

\* A faulty variant of calculate_checksum: the type flag and the link name
\* are left out of the digest
HeaderLL_calculate_checksum_without_type(ll) ==
    crc32(SubSeq(HeaderLL_to_bytes(ll), 1, 156))

HeaderLL_calculate_checksum(ll) == crc32(HeaderLL_to_bytes(ll))

HeaderLL_set_checksum(ll, checksum) ==
    [ll EXCEPT !.checksum = checksum_to_le_bytes(checksum) \o Zeros(4)]

HeaderLL_serialize(ll) == HeaderLL_to_bytes(ll) \o Zeros(512 - 257)

HeaderLL_from_bytes(bytes) ==
    IF Len(bytes) # 512 THEN [ok |-> FALSE]
    ELSE [ok |-> TRUE,
          ll |-> [file_name |-> Slice(bytes, 0, 100),
                  file_mode |-> Slice(bytes, 100, 108),
                  user_id |-> Slice(bytes, 108, 116),
                  group_id |-> Slice(bytes, 116, 124),
                  file_size |-> Slice(bytes, 124, 136),
                  last_modified |-> Slice(bytes, 136, 148),
                  checksum |-> Slice(bytes, 148, 156),
                  type_flag |-> bytes[156 + 1],
                  link_name |-> Slice(bytes, 157, 257)]]

Header_serialize(header) ==
    With(HeaderLL_new(header), LAMBDA header_ll :
        With(HeaderLL_calculate_checksum(header_ll), LAMBDA checksum :
            HeaderLL_serialize(HeaderLL_set_checksum(header_ll, checksum))))

Header_deserialize(bytes) ==
    With(HeaderLL_from_bytes(bytes), LAMBDA parsed :
        IF ~parsed.ok
        THEN [ok |-> FALSE, err |-> "length", err_name |-> <<>>,
              stored_checksum |-> ZeroChecksum, calc_checksum |-> ZeroChecksum,
              header |-> NoHeader, file_name_size |-> 0, link_name_size |-> 0]
        ELSE
        With(checksum_from_le_bytes(Slice(parsed.ll.checksum, 0, 4)), LAMBDA stored_checksum :
        With(HeaderLL_set_checksum(parsed.ll, ZeroChecksum), LAMBDA ll0 :
        With(HeaderLL_calculate_checksum(ll0), LAMBDA calc_checksum :
        With(tar_TypeFlag_from_byte(ll0.type_flag), LAMBDA type_flag :
            IF calc_checksum # stored_checksum
            THEN [ok |-> FALSE, err |-> "checksum",
                  err_name |-> tar_bytes_to_path(ll0.file_name),
                  stored_checksum |-> stored_checksum, calc_checksum |-> calc_checksum,
                  header |-> NoHeader, file_name_size |-> 0, link_name_size |-> 0]
            ELSE IF ~type_flag.ok
            THEN [ok |-> FALSE, err |-> "typeflag", err_name |-> <<>>,
                  stored_checksum |-> stored_checksum, calc_checksum |-> calc_checksum,
                  header |-> NoHeader, file_name_size |-> 0, link_name_size |-> 0]
            ELSE [ok |-> TRUE, err |-> "", err_name |-> <<>>,
                  stored_checksum |-> stored_checksum, calc_checksum |-> calc_checksum,
                  header |-> [file_name |-> tar_bytes_to_path(ll0.file_name),
                              file_size |-> tar_bytes_to_u64(ll0.file_size),
                              file_mode |-> tar_bytes_to_u32(ll0.file_mode),
                              user_id |-> tar_bytes_to_u32(ll0.user_id),
                              group_id |-> tar_bytes_to_u32(ll0.group_id),
                              created_at |-> 0,
                              last_modified |-> tar_bytes_to_i64(ll0.last_modified),
                              type_flag |-> type_flag.flag,
                              link_name |-> None],
                  file_name_size |-> 0, link_name_size |-> 0])))))

\* ------------------------------------------------------------------------
\* std::path on Unix, on byte strings
\* ------------------------------------------------------------------------

SEP == 47

DOT == <<46>>

DOTDOT == <<46, 46>>

has_root(path) == Len(path) > 0 /\ path[1] = SEP

\* The segments between separators that are not empty, as <<first, last>>
SegmentStarts(path) ==
    {i \in 1..Len(path) : path[i] # SEP /\ (i = 1 \/ path[i - 1] = SEP)}

SegmentEnd(path, s) ==
    CHOOSE e \in s..Len(path) :
        /\ \A j \in s..e : path[j] # SEP
        /\ (e = Len(path) \/ path[e + 1] = SEP)

\* Path::components without the root: empty segments and `.` are dropped,
\* except a leading `.` of a relative path.  Each is <<first, segment>>.
Components(path) ==
    With({s \in SegmentStarts(path) :
            SubSeq(path, s, SegmentEnd(path, s)) = DOT => s = 1}, LAMBDA kept :
        [k \in 1..Cardinality(kept) |->
            With(CHOOSE s \in kept : Cardinality({t \in kept : t < s}) = k - 1, LAMBDA s :
                <<s, SubSeq(path, s, SegmentEnd(path, s))>>)])

RECURSIVE JoinComponents(_, _)
JoinComponents(comps, n) ==
    IF n = 0 THEN <<>>
    ELSE IF n = 1 THEN comps[1][2]
    ELSE JoinComponents(comps, n - 1) \o <<SEP>> \o comps[n][2]

\* Path::file_name
file_name(path) ==
    With(Components(path), LAMBDA comps :
        IF Len(comps) = 0 THEN None
        ELSE With(comps[Len(comps)][2], LAMBDA last :
                IF last = DOT \/ last = DOTDOT THEN None ELSE Some(last)))

\* Path::parent
parent(path) ==
    With(Components(path), LAMBDA comps :
        IF Len(comps) = 0 THEN None
        ELSE Some((IF has_root(path) THEN <<SEP>> ELSE <<>>)
                    \o JoinComponents(comps, Len(comps) - 1)))

\* Path::join
join(base, path) ==
    IF has_root(path) THEN path
    ELSE IF Len(base) = 0 THEN path
    ELSE IF base[Len(base)] = SEP THEN base \o path
    ELSE base \o <<SEP>> \o path

\* ------------------------------------------------------------------------
\* The host file system the inputs are drawn from
\* ------------------------------------------------------------------------

RunUid == 1000

RunGid == 1000

Pattern(n, k, c) == [i \in 1..n |-> (i * k + c) % 256]

FileNode(data, mode, mtime) ==
    [kind |-> "file", data |-> data, target |-> <<>>, listing |-> <<>>,
     mode |-> mode, uid |-> RunUid, gid |-> RunGid, ctime |-> mtime + 5, mtime |-> mtime]

DirNode(listing) ==
    [kind |-> "dir", data |-> <<>>, target |-> <<>>, listing |-> listing,
     mode |-> 16877, uid |-> RunUid, gid |-> RunGid, ctime |-> 1700000000, mtime |-> 1700000000]

LinkNode(target) ==
    [kind |-> "symlink", data |-> <<>>, target |-> target, listing |-> <<>>,
     mode |-> 41471, uid |-> RunUid, gid |-> RunGid, ctime |-> 1700000001, mtime |-> 1700000001]

FifoNode ==
    [kind |-> "other", data |-> <<>>, target |-> <<>>, listing |-> <<>>,
     mode |-> 4516, uid |-> RunUid, gid |-> RunGid, ctime |-> 1700000002, mtime |-> 1700000002]

P(a, b) == a \o <<SEP>> \o b

nA == <<97>>
nB == <<98>>
nC == <<99>>
nD == <<100>>
nE == <<101>>
nF == <<102>>
nG == <<103>>
nL == <<108>>
nP == <<112>>
nQ == <<113>>
nR == <<114>>
nH == <<104>>
nS == <<115>>
nX == <<120>>
nY == <<121>>
nZ == <<122>>
nW == <<119>>
nK == <<107>>
nU == <<117>>
nV == <<118>>

\* What fs::symlink_metadata, fs::read_dir, fs::read_link and File::open
\* see, by system path relative to the working directory.
HostFS ==
    (nF :> FileNode(<<104, 0, 105, 10>>, 33188, 1700000100)) @@
    (nZ :> FileNode(<<>>, 33152, -86400)) @@
    (nL :> LinkNode(nF)) @@
    (nD :> DirNode(<<nB, nA, nS, nE, nL>>)) @@
    (P(nD, nB) :> FileNode(<<66, 66>>, 33261, 1700000200)) @@
    (P(nD, nA) :> FileNode(<<0>>, 33188, 1700000300)) @@
    (P(nD, nS) :> DirNode(<<nC>>)) @@
    (P(P(nD, nS), nC) :> FileNode(<<99, 0, 0, 99>>, 33024, 1600000000)) @@
    (P(nD, nE) :> DirNode(<<>>)) @@
    (P(nD, nL) :> LinkNode(P(DOTDOT, nF))) @@
    (nX :> DirNode(<<nA>>)) @@
    (P(nX, nA) :> FileNode(<<49>>, 33188, 1700000400)) @@
    (nY :> DirNode(<<nA>>)) @@
    (P(nY, nA) :> FileNode(<<50, 50>>, 33188, 1700000500)) @@
    (nG :> DirNode(<<nQ, nR, nP>>)) @@
    (P(nG, nP) :> FileNode(Pattern(8191, 7, 1), 33188, 1700000600)) @@
    (P(nG, nQ) :> FileNode(Pattern(8192, 3, 0), 33188, 1700000700)) @@
    (P(nG, nR) :> FileNode(Pattern(8193, 5, 251), 33188, 1700000800)) @@
    (nH :> FileNode(Pattern(16384, 11, 3), 33188, 1700000900)) @@
    (nK :> DirNode(<<nU, nV>>)) @@
    (P(nK, nU) :> LinkNode(DOT)) @@
    (P(nK, nV) :> LinkNode(P(DOTDOT, nD))) @@
    (nP :> FifoNode) @@
    (nE :> DirNode(<<>>)) @@
    (nW :> FileNode(Zeros(1024), 33188, 1700001000)) @@
    (DOTDOT :> DirNode(<<>>))

\* The paths a pack run may be given as input files
InputPaths == {nF, nZ, nL, nD, P(nX, nA), P(nY, nA), nG, nH, nK, nP, nE, nW,
               DOTDOT, DOT, <<SEP>>}

MaxInputs == 2

RECURSIVE SeqsUpTo(_, _)
SeqsUpTo(S, n) ==
    IF n = 0 THEN {<<>>}
    ELSE LET shorter == SeqsUpTo(S, n - 1)
         IN  shorter \cup {Append(q, e) : q \in {r \in shorter : Len(r) = n - 1}, e \in S}

\* A faulty variant of symlink_metadata: a symlink is reported as the regular
\* file it is taken to point to
symlink_metadata_following(path) ==
    IF path \in DOMAIN HostFS
    THEN With(HostFS[path], LAMBDA node :
            [ok |-> TRUE, kind |-> IF node.kind = "symlink" THEN "file" ELSE node.kind,
             len |-> (CASE node.kind = "file" -> Len(node.data)
                        [] node.kind = "symlink" -> Len(node.target)
                        [] OTHER -> 0),
             mode |-> node.mode, uid |-> node.uid, gid |-> node.gid,
             ctime |-> node.ctime, mtime |-> node.mtime])
    ELSE [ok |-> FALSE]

symlink_metadata(path) ==
    IF path \in DOMAIN HostFS
    THEN With(HostFS[path], LAMBDA node :
            [ok |-> TRUE, kind |-> node.kind,
             len |-> (CASE node.kind = "file" -> Len(node.data)
                        [] node.kind = "symlink" -> Len(node.target)
                        [] OTHER -> 0),
             mode |-> node.mode, uid |-> node.uid, gid |-> node.gid,
             ctime |-> node.ctime, mtime |-> node.mtime])
    ELSE [ok |-> FALSE]

\* ------------------------------------------------------------------------
\* Buffered file I/O (src/archive/file.rs)
\* ------------------------------------------------------------------------

READ_BUFFER_SIZE == 8192

\* The chunks the loop of read_file_chunked hands to the callback: a read of
\* a regular file fills the buffer while bytes remain.  `panic` is the
\* assert_eq! of the loop failing on an early end of file.
RECURSIVE read_file_chunked_loop(_, _, _)
read_file_chunked_loop(data, file_size, total_bytes_read) ==
    IF ~(total_bytes_read < file_size) THEN [ok |-> TRUE, chunks |-> <<>>]
    ELSE With(Min(READ_BUFFER_SIZE, Len(data) - total_bytes_read), LAMBDA bytes_read :
            IF bytes_read = 0
            THEN [ok |-> FALSE, chunks |-> <<>>]
            ELSE With(read_file_chunked_loop(data, file_size,
                                             total_bytes_read + bytes_read), LAMBDA rest :
                    [ok |-> rest.ok,
                     chunks |-> <<SubSeq(data, total_bytes_read + 1,
                                         total_bytes_read + bytes_read)>> \o rest.chunks]))

read_file_chunked(path, file_size) ==
    With(IF path \in DOMAIN HostFS THEN HostFS[path] ELSE FifoNode, LAMBDA node :
        IF node.kind # "file"
        THEN [ok |-> FALSE, chunks |-> <<>>]
        ELSE IF file_size < READ_BUFFER_SIZE
        THEN IF Len(node.data) >= file_size
             THEN [ok |-> TRUE, chunks |-> <<SubSeq(node.data, 1, file_size)>>]
             ELSE [ok |-> FALSE, chunks |-> <<>>]
        ELSE read_file_chunked_loop(node.data, file_size, 0))

\* ------------------------------------------------------------------------
\* Writes to the archive's BufWriter
\* ------------------------------------------------------------------------

W(kind, path, bytes) == [kind |-> kind, path |-> path, bytes |-> bytes]

RECURSIVE WriteBytes(_, _)
WriteBytes(writes, n) ==
    IF n = 0 THEN <<>> ELSE WriteBytes(writes, n - 1) \o writes[n].bytes

RECURSIVE WriteLog(_, _, _)
WriteLog(writes, n, off) ==
    IF n = 0 THEN <<>>
    ELSE With(WriteLog(writes, n - 1, off), LAMBDA before :
            Append(before,
                   [kind |-> writes[n].kind, path |-> writes[n].path,
                    off |-> IF n = 1 THEN off ELSE before[n - 1].off + before[n - 1].len,
                    len |-> Len(writes[n].bytes)]))

\* ------------------------------------------------------------------------
\* BAG backend (src/backend/bag.rs, src/backend/bag/global_header.rs)
\* ------------------------------------------------------------------------

PREAMBLE == <<66, 65, 71, 32, 65, 70, 46>>

FormatVersion_as_byte == 1

FormatVersion_from_byte(byte) == byte = 49 \/ byte = 1

GlobalHeader_serialize == PREAMBLE \o <<FormatVersion_as_byte>> \o Zeros(64 - 8)

GlobalHeader_deserialize(bytes) ==
    /\ Len(bytes) = 64
    /\ IsUtf8(Slice(bytes, 0, 7))
    /\ Slice(bytes, 0, 7) = PREAMBLE
    /\ FormatVersion_from_byte(bytes[7 + 1])

bag_EOF_MARKER == Zeros(128)

bag_write_prologue == <<W("prologue", <<>>, GlobalHeader_serialize)>>

\* The header block, the file name, and the link name of a symlink; returns
\* the file size of the header.
bag_pack_header(file, metadata, link_name) ==
    With(FileHeader_new(file.archive_path, metadata, link_name), LAMBDA header :
    With(FileHeader_serialize(header), LAMBDA header_block :
        [ok |-> TRUE, file_size |-> header.file_size,
         writes |-> <<W("header", file.archive_path, header_block.header),
                      W("name", file.archive_path, header_block.file_name)>>
                    \o (IF link_name = None THEN <<>>
                        ELSE <<W("link", file.archive_path, header_block.link_name)>>)]))

bag_write_epilogue == <<W("epilogue", <<>>, bag_EOF_MARKER)>>

bag_is_eoa(header_buffer) == Len(header_buffer) = 64 /\ AllZero(header_buffer)

bag_header_block_size == 64

\* ------------------------------------------------------------------------
\* TAR backend (src/backend/tar.rs)
\* ------------------------------------------------------------------------

tar_EOF_MARKER == Zeros(1024)

tar_write_prologue == <<>>

tar_pack_header(file, metadata, link_name) ==
    With(Header_new(file.archive_path, metadata), LAMBDA header :
        [ok |-> TRUE, file_size |-> header.file_size,
         writes |-> <<W("header", file.archive_path, Header_serialize(header))>>])

tar_write_epilogue == <<W("epilogue", <<>>, tar_EOF_MARKER)>>

\* A faulty variant of is_eoa: only the name field is compared
tar_is_eoa_name_only(header_buffer) == AllZero(SubSeq(header_buffer, 1, 100))

tar_is_eoa(header_buffer) == Len(header_buffer) = 512 /\ AllZero(header_buffer)

tar_header_block_size == 512

\* ------------------------------------------------------------------------
\* Dispatch on the backend (the PackerBackend trait, src/backend.rs)
\* ------------------------------------------------------------------------

write_prologue(packer) == IF packer = "BAG" THEN bag_write_prologue ELSE tar_write_prologue

pack_header(packer, file, metadata, link_name) ==
    IF packer = "BAG" THEN bag_pack_header(file, metadata, link_name)
    ELSE tar_pack_header(file, metadata, link_name)

\* A faulty variant of write_epilogue: nothing is written
write_epilogue_omitted(packer) == <<>>

write_epilogue(packer) == IF packer = "BAG" THEN bag_write_epilogue ELSE tar_write_epilogue

is_eoa(packer, header_buffer) ==
    IF packer = "BAG" THEN bag_is_eoa(header_buffer) ELSE tar_is_eoa(header_buffer)

header_block_size(packer) ==
    IF packer = "BAG" THEN bag_header_block_size ELSE tar_header_block_size

\* ------------------------------------------------------------------------
\* Pack driver (src/archive/pack.rs)
\* ------------------------------------------------------------------------

FilePath(archive_path, system_path) ==
    [archive_path |-> archive_path, system_path |-> system_path]

\* A faulty variant of file_defs: the archive path is the whole input path
file_defs_whole_path(files) ==
    [ok |-> TRUE, defs |-> [i \in 1..Len(files) |-> FilePath(files[i], files[i])]]

\* pack, lines 19-31: one FilePath per input, or the first error
file_defs(files) ==
    With([i \in 1..Len(files) |-> file_name(files[i])], LAMBDA names :
        IF \E i \in 1..Len(files) : names[i] = None \/ ~IsUtf8(names[i][1])
        THEN [ok |-> FALSE, defs |-> <<>>]
        ELSE [ok |-> TRUE,
              defs |-> [i \in 1..Len(files) |-> FilePath(names[i][1], files[i])]])

\* A faulty variant of sub_paths: the children in reverse listing order
sub_paths_reversed(file_def) ==
    With(HostFS[file_def.system_path].listing, LAMBDA listing :
        [i \in 1..Len(listing) |->
            FilePath(join(file_def.archive_path, listing[Len(listing) + 1 - i]),
                     join(file_def.system_path, listing[Len(listing) + 1 - i]))])

\* process_file, lines 66-82: the children of a directory, in listing order
sub_paths(file_def) ==
    With(HostFS[file_def.system_path].listing, LAMBDA listing :
        [i \in 1..Len(listing) |->
            FilePath(join(file_def.archive_path, listing[i]),
                     join(file_def.system_path, listing[i]))])

\* A faulty variant of process_file: a directory gets an entry header of its
\* own before its children are processed
process_file_with_dir_entry(packer, file_def) ==
    With(symlink_metadata(file_def.system_path), LAMBDA metadata :
        IF ~metadata.ok
        THEN [ok |-> FALSE, writes |-> <<>>, sub |-> <<>>]
        ELSE IF metadata.kind = "dir"
        THEN [ok |-> TRUE,
              writes |-> pack_header(packer, file_def, metadata, None).writes,
              sub |-> sub_paths(file_def)]
        ELSE IF metadata.kind \in {"symlink", "file"}
        THEN With(pack_header(packer, file_def, metadata,
                              IF metadata.kind = "symlink"
                              THEN Some(HostFS[file_def.system_path].target)
                              ELSE None), LAMBDA packed :
                IF metadata.kind = "symlink"
                THEN [ok |-> packed.ok, writes |-> packed.writes, sub |-> <<>>]
                ELSE With(read_file_chunked(file_def.system_path, packed.file_size),
                          LAMBDA read :
                        [ok |-> packed.ok /\ read.ok,
                         writes |-> packed.writes \o
                                    [i \in 1..Len(read.chunks) |->
                                       W("payload", file_def.archive_path, read.chunks[i])],
                         sub |-> <<>>]))
        ELSE [ok |-> FALSE, writes |-> <<>>, sub |-> <<>>])

\* process_file: what one call does before it recurses or returns
\*   ok, the writes it made, and the FilePaths it goes on to process
process_file(packer, file_def) ==
    With(symlink_metadata(file_def.system_path), LAMBDA metadata :
        IF ~metadata.ok
        THEN [ok |-> FALSE, writes |-> <<>>, sub |-> <<>>]
        ELSE IF metadata.kind = "dir"
        THEN [ok |-> TRUE, writes |-> <<>>, sub |-> sub_paths(file_def)]
        ELSE IF metadata.kind \in {"symlink", "file"}
        THEN With(pack_header(packer, file_def, metadata,
                              IF metadata.kind = "symlink"
                              THEN Some(HostFS[file_def.system_path].target)
                              ELSE None), LAMBDA packed :
                IF metadata.kind = "symlink"
                THEN [ok |-> packed.ok, writes |-> packed.writes, sub |-> <<>>]
                ELSE With(read_file_chunked(file_def.system_path, packed.file_size),
                          LAMBDA read :
                        [ok |-> packed.ok /\ read.ok,
                         writes |-> packed.writes \o
                                    [i \in 1..Len(read.chunks) |->
                                       W("payload", file_def.archive_path, read.chunks[i])],
                         sub |-> <<>>]))
        ELSE [ok |-> FALSE, writes |-> <<>>, sub |-> <<>>])

\* ------------------------------------------------------------------------
\* Unpack driver (src/archive/unpack.rs)
\* ------------------------------------------------------------------------

\* The directory unpack is given; it exists and is empty.
output_path == <<111>>

\* A faulty variant of read_exact: at the end of the stream the rest of the
\* buffer keeps its zeros and the read counts as complete
read_exact_zero_filled(bytes, pos, n) ==
    IF pos + n <= Len(bytes)
    THEN [ok |-> TRUE, bytes |-> SubSeq(bytes, pos + 1, pos + n), pos |-> pos + n]
    ELSE [ok |-> TRUE,
          bytes |-> SubSeq(bytes, pos + 1, Len(bytes)) \o Zeros(pos + n - Len(bytes)),
          pos |-> Len(bytes)]

\* std::io::Read::read_exact on the archive reader at offset pos
read_exact(bytes, pos, n) ==
    IF pos + n <= Len(bytes)
    THEN [ok |-> TRUE, bytes |-> SubSeq(bytes, pos + 1, pos + n), pos |-> pos + n]
    ELSE [ok |-> FALSE, bytes |-> <<>>, pos |-> Len(bytes)]

R(kind, off, len, ok) == [kind |-> kind, off |-> off, len |-> len, ok |-> ok]

bag_read_prologue(bytes, pos) ==
    With(read_exact(bytes, pos, 64), LAMBDA r :
        [ok |-> r.ok /\ GlobalHeader_deserialize(r.bytes), pos |-> r.pos,
         reads |-> <<R("prologue", pos, 64, r.ok)>>])

tar_read_prologue(bytes, pos) == [ok |-> TRUE, pos |-> pos, reads |-> <<>>]

read_prologue(packer, bytes, pos) ==
    IF packer = "BAG" THEN bag_read_prologue(bytes, pos) ELSE tar_read_prologue(bytes, pos)

\* A faulty variant of unpack_header: the file name after the header block is
\* read but the reader is left where the name starts
bag_unpack_header_name_unread(bytes, pos, header_buffer) ==
    With(FileHeader_deserialize(header_buffer), LAMBDA d :
        IF ~d.ok
        THEN [ok |-> FALSE, header |-> NoHeader, pos |-> pos, reads |-> <<>>, err |-> d]
        ELSE With(read_exact(bytes, pos, d.file_name_size), LAMBDA r :
                [ok |-> r.ok,
                 header |-> [d.header EXCEPT !.file_name = bag_bytes_to_path(r.bytes)],
                 pos |-> pos,
                 reads |-> <<R("name", pos, d.file_name_size, r.ok)>>,
                 err |-> d]))

bag_unpack_header(bytes, pos, header_buffer) ==
    With(FileHeader_deserialize(header_buffer), LAMBDA d :
        IF ~d.ok
        THEN [ok |-> FALSE, header |-> NoHeader, pos |-> pos, reads |-> <<>>, err |-> d]
        ELSE With(read_exact(bytes, pos, d.file_name_size), LAMBDA r :
                [ok |-> r.ok,
                 header |-> [d.header EXCEPT !.file_name = bag_bytes_to_path(r.bytes)],
                 pos |-> r.pos,
                 reads |-> <<R("name", pos, d.file_name_size, r.ok)>>,
                 err |-> d]))

tar_unpack_header(bytes, pos, header_buffer) ==
    With(Header_deserialize(header_buffer), LAMBDA d :
        [ok |-> d.ok, header |-> d.header, pos |-> pos, reads |-> <<>>, err |-> d])

unpack_header(packer, bytes, pos, header_buffer) ==
    IF packer = "BAG" THEN bag_unpack_header(bytes, pos, header_buffer)
    ELSE tar_unpack_header(bytes, pos, header_buffer)

\* parse_path: (filename, parent directories)
parse_path(path) ==
    With(file_name(path), LAMBDA name :
        IF name = None
        THEN [ok |-> FALSE, filename |-> <<>>, parent_dirs |-> <<>>]
        ELSE With(parent(path), LAMBDA dirs :
                [ok |-> TRUE, filename |-> name[1],
                 parent_dirs |-> IF dirs = None THEN <<>> ELSE dirs[1]]))

\* The path and every ancestor of it that has a name
PathPrefixes(path) ==
    With(Components(path), LAMBDA comps :
        {(IF has_root(path) THEN <<SEP>> ELSE <<>>) \o JoinComponents(comps, k) :
            k \in 1..Len(comps)})

\* fs::create_dir_all: fails on a component that exists and is no directory
create_dir_all(files, dirs, path) ==
    With(PathPrefixes(path), LAMBDA prefixes :
        IF \E q \in prefixes : q \in DOMAIN files
        THEN [ok |-> FALSE, dirs |-> dirs]
        ELSE [ok |-> TRUE, dirs |-> dirs \cup prefixes])

\* The mode of a file that OpenOptions::create makes (0o666 under umask 022)
CreateMode == 33188

\* The time at which unpack runs, later than every source's modification time
Now == 1800000000

\* OpenOptions::new().create(true).write(true).truncate(true).open(filepath)
open_create_truncate(files, dirs, filepath) ==
    IF filepath \in dirs
    THEN [ok |-> FALSE, files |-> files]
    ELSE IF filepath \in DOMAIN files
    THEN [ok |-> TRUE,
          files |-> [files EXCEPT ![filepath] = [@ EXCEPT !.data = <<>>, !.mtime = Now]]]
    ELSE [ok |-> TRUE,
          files |-> (filepath :> [kind |-> "file", data |-> <<>>, mode |-> CreateMode,
                                  uid |-> RunUid, gid |-> RunGid, mtime |-> Now]) @@ files]

\* A faulty variant of the chunk loop: every chunk is a full buffer, the last
\* one too
unpack_payload_loop_full_chunks(bytes, pos, bytes_remaining) ==
    LET loop[p \in Nat, remaining \in Int] ==
            IF ~(remaining > 0) THEN [ok |-> TRUE, pos |-> p, data |-> <<>>, reads |-> <<>>]
            ELSE With(read_exact(bytes, p, READ_BUFFER_SIZE), LAMBDA r :
                    IF ~r.ok
                    THEN [ok |-> FALSE, pos |-> r.pos, data |-> <<>>,
                          reads |-> <<R("payload", p, READ_BUFFER_SIZE, FALSE)>>]
                    ELSE With(loop[r.pos, remaining - READ_BUFFER_SIZE], LAMBDA rest :
                            [ok |-> rest.ok, pos |-> rest.pos, data |-> r.bytes \o rest.data,
                             reads |-> <<R("payload", p, READ_BUFFER_SIZE, TRUE)>>
                                        \o rest.reads]))
    IN  loop[pos, bytes_remaining]

\* process_file, lines 104-124: the chunk loop over the payload
RECURSIVE unpack_payload_loop(_, _, _)
unpack_payload_loop(bytes, pos, bytes_remaining) ==
    IF ~(bytes_remaining > 0) THEN [ok |-> TRUE, pos |-> pos, data |-> <<>>, reads |-> <<>>]
    ELSE With(IF bytes_remaining < READ_BUFFER_SIZE
              THEN bytes_remaining ELSE READ_BUFFER_SIZE, LAMBDA n :
         With(read_exact(bytes, pos, n), LAMBDA r :
            IF ~r.ok
            THEN [ok |-> FALSE, pos |-> r.pos, data |-> <<>>,
                  reads |-> <<R("payload", pos, n, FALSE)>>]
            ELSE With(unpack_payload_loop(bytes, r.pos, bytes_remaining - n), LAMBDA rest :
                    [ok |-> rest.ok, pos |-> rest.pos, data |-> r.bytes \o rest.data,
                     reads |-> <<R("payload", pos, n, TRUE)>> \o rest.reads])))

\* process_file, lines 84-129: the bytes read from the archive and written to
\* the destination file
unpack_payload(bytes, pos, file_size) ==
    IF file_size < READ_BUFFER_SIZE
    THEN With(read_exact(bytes, pos, file_size), LAMBDA r :
            [ok |-> r.ok, pos |-> r.pos, data |-> r.bytes,
             reads |-> <<R("payload", pos, file_size, r.ok)>>])
    ELSE unpack_payload_loop(bytes, pos, file_size)

\* process_file of unpack: one entry, from its header block to its payload
unpack_process_file(packer, bytes, pos, header_buffer, files, dirs) ==
    LET Fail(h, ds) ==
            [ok |-> FALSE, pos |-> h.pos, reads |-> h.reads, files |-> files, dirs |-> ds,
             made |-> None]
    IN  With(unpack_header(packer, bytes, pos, header_buffer), LAMBDA h :
        IF ~h.ok THEN Fail(h, dirs)
        ELSE
        With(parse_path(h.header.file_name), LAMBDA parsed :
        IF ~parsed.ok THEN Fail(h, dirs)
        ELSE
        With(IF parsed.parent_dirs # <<>>
             THEN join(output_path, parsed.parent_dirs)
             ELSE output_path, LAMBDA final_path :
        With(IF parsed.parent_dirs # <<>>
             THEN create_dir_all(files, dirs, final_path)
             ELSE [ok |-> TRUE, dirs |-> dirs], LAMBDA made_dirs :
        IF ~made_dirs.ok THEN Fail(h, dirs)
        ELSE
        With(join(final_path, parsed.filename), LAMBDA filepath :
        With(open_create_truncate(files, made_dirs.dirs, filepath), LAMBDA opened :
        IF ~opened.ok THEN Fail(h, made_dirs.dirs)
        ELSE
        With(unpack_payload(bytes, h.pos, h.header.file_size), LAMBDA payload :
            [ok |-> payload.ok, pos |-> payload.pos,
             reads |-> h.reads \o payload.reads,
             files |-> [opened.files EXCEPT ![filepath].data = payload.data],
             dirs |-> made_dirs.dirs,
             made |-> Some(filepath)])))))))

\* ------------------------------------------------------------------------
\* The state of a pack run followed by an unpack run of the archive
\* ------------------------------------------------------------------------

VARIABLES
    backend,        \* "BAG" or "TAR"
    inputs,         \* the input files given to pack
    pc,             \* where the run is
    worklist,       \* the FilePaths pack has still to process, depth first
    archive,        \* the bytes written to the archive
    wlog,           \* the writes to the archive, in order
    pack_result,    \* "none", "ok" or "err"
    pos,            \* the offset of the archive reader
    rlog,           \* the reads of the archive, in order
    out_files,      \* the files under output_path, by path
    out_dirs,       \* the directories at and under output_path
    mlog,           \* the paths unpack has created, in order
    unpack_result,  \* "none", "ok" or "err"
    hdr,            \* the header value given to serialize
    hblock,         \* the serialised header: block, name and link name
    changed,        \* the offset of the byte of the block changed since, or -1
    decoded,        \* what deserialize returned for the block
    cut,            \* the length the archive was truncated to after pack, or -1
    flag_in,        \* the type flag given to `as u8`, or "none"
    flag_byte,      \* the byte given to TypeFlag::from_byte
    flag_out,       \* what TypeFlag::from_byte returned
    read_size,      \* the file_size given to read_file_chunked
    read_out,       \* what read_file_chunked did: its result and the chunks
    open_handles,   \* the file handles pack holds open
    peak,           \* the most file handles pack has held open at one instant
    on_disk,        \* how many bytes of the archive have reached the archive file
    disk_ok         \* whether the archive file still accepts writes

vars == <<backend, inputs, pc, worklist, archive, wlog, pack_result, pos, rlog,
          out_files, out_dirs, mlog, unpack_result, hdr, hblock, changed, decoded,
          cut, flag_in, flag_byte, flag_out, read_size, read_out,
             open_handles, peak, on_disk, disk_ok>>

packVars == <<worklist, archive, wlog, pack_result>>

unpackVars == <<pos, rlog, out_files, out_dirs, mlog, unpack_result>>

headerVars == <<hdr, hblock, changed, decoded>>

flagVars == <<flag_in, flag_byte, flag_out>>

readVars == <<read_size, read_out>>

NoRead == [ok |-> FALSE, chunks |-> <<>>]

handleVars == <<open_handles, peak>>

diskVars == <<on_disk, disk_ok>>

NoFlag == [ok |-> FALSE, flag |-> "none"]

NotDecoded ==
    [ok |-> FALSE, err |-> "none", err_name |-> <<>>,
     stored_checksum |-> ZeroChecksum, calc_checksum |-> ZeroChecksum,
     header |-> NoHeader, file_name_size |-> 0, link_name_size |-> 0]

NoBlock == [header |-> <<>>, file_name |-> <<>>, link_name |-> <<>>]

NoFiles == [q \in {} |-> 0]

Init ==
    /\ backend \in {"BAG", "TAR"}
    /\ inputs \in SeqsUpTo(InputPaths, MaxInputs) \ {<<>>}
    /\ pc = "start"
    /\ worklist = <<>>
    /\ archive = <<>>
    /\ wlog = <<>>
    /\ pack_result = "none"
    /\ pos = 0
    /\ rlog = <<>>
    /\ out_files = NoFiles
    /\ out_dirs = {output_path}
    /\ mlog = <<>>
    /\ unpack_result = "none"
    /\ hdr = NoHeader
    /\ hblock = NoBlock
    /\ changed = -1
    /\ decoded = NotDecoded
    /\ cut = -1
    /\ flag_in = "none"
    /\ flag_byte = 0
    /\ flag_out = NoFlag
    /\ read_size = 0
    /\ read_out = NoRead
    /\ open_handles = <<>>
    /\ peak = 0
    /\ on_disk = 0
    /\ disk_ok = TRUE

\* The capacity of the buffer of BufWriter::new (pack, line 17)
BUF_WRITER_CAPACITY == 8192

\* BufWriter::write_all for the first k of the writes: bytes that fit in the
\* spare capacity are buffered; otherwise the buffer is written to the file
\* if the bytes exceed the spare capacity, and bytes of the capacity or more
\* go to the file directly.  A write to the file fails when it no longer
\* accepts writes, and the writes after a failure are not made.
RECURSIVE BufWrite(_, _)
BufWrite(writes, k) ==
    IF k = 0 THEN [ok |-> TRUE, on_disk |-> on_disk, buffered |-> Len(archive) - on_disk]
    ELSE With(BufWrite(writes, k - 1), LAMBDA b :
         With(Len(writes[k].bytes), LAMBDA n :
            IF ~b.ok \/ n < BUF_WRITER_CAPACITY - b.buffered
            THEN [b EXCEPT !.buffered = IF b.ok THEN @ + n ELSE @]
            ELSE With(IF n > BUF_WRITER_CAPACITY - b.buffered /\ b.buffered > 0
                      THEN [ok |-> disk_ok,
                            on_disk |-> IF disk_ok THEN b.on_disk + b.buffered ELSE b.on_disk,
                            buffered |-> IF disk_ok THEN 0 ELSE b.buffered]
                      ELSE b, LAMBDA f :
                 IF ~f.ok THEN f
                 ELSE IF n >= BUF_WRITER_CAPACITY
                 THEN [ok |-> disk_ok,
                       on_disk |-> IF disk_ok THEN f.on_disk + n ELSE f.on_disk,
                       buffered |-> f.buffered]
                 ELSE [f EXCEPT !.buffered = @ + n])))

\* write_all of each of the writes returned Ok
WriterOk(writes) == BufWrite(writes, Len(writes)).ok

\* What has reached the archive file after the writes; when pack returns,
\* the writer is dropped: its drop writes the buffer to the file and
\* ignores a failure of that write.
Flushed(writes, returning) ==
    on_disk' = With(BufWrite(writes, Len(writes)), LAMBDA b :
                   IF returning /\ disk_ok THEN b.on_disk + b.buffered ELSE b.on_disk)

Written(writes) ==
    /\ archive' = archive \o WriteBytes(writes, Len(writes))
    /\ wlog' = wlog \o WriteLog(writes, Len(writes), Len(archive))

\* The handle of the archive file, held by the BufWriter of pack (line 16-17)
ArchiveHandle == [kind |-> "archive", path |-> <<>>]

SourceHandle(path) == [kind |-> "source", path |-> path]

\* A faulty variant of source_handles: the listing of a directory stays open
\* while its children are processed
source_handles_dir_held(file_def) ==
    With(symlink_metadata(file_def.system_path), LAMBDA metadata :
        IF metadata.ok /\ metadata.kind = "dir"
        THEN [during |-> <<SourceHandle(file_def.system_path)>>,
              left |-> <<SourceHandle(file_def.system_path)>>]
        ELSE IF metadata.ok /\ metadata.kind = "file"
        THEN [during |-> <<SourceHandle(file_def.system_path)>>, left |-> <<>>]
        ELSE [during |-> <<>>, left |-> <<>>])

\* The source handles one call of process_file opens, and those it has not
\* dropped when it goes on to the next FilePath: the ReadDir of a directory
\* lives for the `for` loop of lines 68-81, the File of a regular file for
\* the call of read_file_chunked (file.rs 18-19); a symlink is read with
\* fs::read_link, which returns no handle.
source_handles(file_def) ==
    With(symlink_metadata(file_def.system_path), LAMBDA metadata :
        IF metadata.ok /\ metadata.kind \in {"dir", "file"}
        THEN [during |-> <<SourceHandle(file_def.system_path)>>, left |-> <<>>]
        ELSE [during |-> <<>>, left |-> <<>>])

\* The handles over one call of process_file; a failed call makes pack
\* return, which drops the writer
Handles(file_def, ok) ==
    \E h \in {source_handles(file_def)} :
        /\ peak' = IF Len(open_handles) + Len(h.during) > peak
                   THEN Len(open_handles) + Len(h.during) ELSE peak
        /\ open_handles' = IF ok THEN open_handles \o h.left ELSE <<>>

\* pack, lines 16-31: create the archive file and build the FilePaths
PackBegin ==
    /\ pc = "start"
    /\ \E defs \in {file_defs(inputs)} :
           IF defs.ok
           THEN /\ worklist' = defs.defs
                /\ pc' = "prologue"
                /\ pack_result' = pack_result
           ELSE /\ worklist' = <<>>
                /\ pc' = "packed"
                /\ pack_result' = "err"
    /\ UNCHANGED <<backend, inputs, archive, wlog>>
    /\ UNCHANGED unpackVars
    /\ UNCHANGED headerVars
    /\ UNCHANGED cut
    /\ UNCHANGED flagVars
    /\ UNCHANGED readVars
    /\ open_handles' = IF file_defs(inputs).ok THEN <<ArchiveHandle>> ELSE <<>>
    /\ peak' = 1
    /\ UNCHANGED diskVars

\* pack, line 33
WritePrologue ==
    /\ pc = "prologue"
    /\ Written(write_prologue(backend))
    /\ Flushed(write_prologue(backend), FALSE)
    /\ pc' = "files"
    /\ UNCHANGED <<backend, inputs, worklist, pack_result>>
    /\ UNCHANGED unpackVars
    /\ UNCHANGED headerVars
    /\ UNCHANGED cut
    /\ UNCHANGED flagVars
    /\ UNCHANGED readVars
    /\ UNCHANGED handleVars
    /\ UNCHANGED disk_ok

\* process_files / process_file: the next FilePath, depth first
ProcessFile ==
    /\ pc = "files"
    /\ worklist # <<>>
    /\ \E done \in {process_file(backend, Head(worklist))} :
           /\ Written(done.writes)
           /\ Handles(Head(worklist), done.ok /\ WriterOk(done.writes))
           /\ Flushed(done.writes, ~(done.ok /\ WriterOk(done.writes)))
           /\ IF done.ok /\ WriterOk(done.writes)
              THEN /\ worklist' = done.sub \o Tail(worklist)
                   /\ UNCHANGED <<pc, pack_result>>
              ELSE /\ worklist' = <<>>
                   /\ pc' = "packed"
                   /\ pack_result' = "err"
    /\ UNCHANGED <<backend, inputs>>
    /\ UNCHANGED unpackVars
    /\ UNCHANGED headerVars
    /\ UNCHANGED cut
    /\ UNCHANGED flagVars
    /\ UNCHANGED readVars
    /\ UNCHANGED disk_ok

\* pack, lines 35-36
WriteEpilogue ==
    /\ pc = "files"
    /\ worklist = <<>>
    /\ Written(write_epilogue(backend))
    /\ Flushed(write_epilogue(backend), TRUE)
    /\ pc' = "packed"
    /\ pack_result' = IF WriterOk(write_epilogue(backend)) THEN "ok" ELSE "err"
    /\ UNCHANGED <<backend, inputs, worklist>>
    /\ UNCHANGED unpackVars
    /\ UNCHANGED headerVars
    /\ UNCHANGED cut
    /\ UNCHANGED flagVars
    /\ UNCHANGED readVars
    /\ open_handles' = <<>>
    /\ UNCHANGED peak
    /\ UNCHANGED disk_ok

\* unpack, lines 18-22: open the archive and read the prologue
UnpackBegin ==
    /\ pc = "packed"
    /\ \E p \in {read_prologue(backend, archive, pos)} :
           /\ pos' = p.pos
           /\ rlog' = rlog \o p.reads
           /\ IF p.ok
              THEN pc' = "unpacking" /\ UNCHANGED unpack_result
              ELSE pc' = "done" /\ unpack_result' = "err"
    /\ UNCHANGED <<backend, inputs, out_files, out_dirs, mlog>>
    /\ UNCHANGED packVars
    /\ UNCHANGED headerVars
    /\ UNCHANGED cut
    /\ UNCHANGED flagVars
    /\ UNCHANGED readVars
    /\ UNCHANGED handleVars
    /\ UNCHANGED diskVars

\* A faulty variant of the header loop: a header block that cannot be read
\* whole is asked for again instead of ending unpack with the error
UnpackStepRetrying ==
    /\ pc = "unpacking"
    /\ \E hbs \in {header_block_size(backend)} :
       \E r \in {read_exact(archive, pos, hbs)} :
           IF ~r.ok
           THEN UNCHANGED <<pos, rlog, pc, unpack_result, out_files, out_dirs, mlog>>
           ELSE IF is_eoa(backend, r.bytes)
           THEN /\ pos' = r.pos
                /\ rlog' = Append(rlog, R("header", pos, hbs, TRUE))
                /\ pc' = "done"
                /\ unpack_result' = "ok"
                /\ UNCHANGED <<out_files, out_dirs, mlog>>
           ELSE \E e \in {unpack_process_file(backend, archive, r.pos, r.bytes,
                                              out_files, out_dirs)} :
                    /\ pos' = e.pos
                    /\ rlog' = Append(rlog, R("header", pos, hbs, TRUE)) \o e.reads
                    /\ out_files' = e.files
                    /\ out_dirs' = e.dirs
                    /\ mlog' = mlog \o e.made
                    /\ IF e.ok
                       THEN UNCHANGED <<pc, unpack_result>>
                       ELSE pc' = "done" /\ unpack_result' = "err"
    /\ UNCHANGED <<backend, inputs>>
    /\ UNCHANGED packVars
    /\ UNCHANGED headerVars
    /\ UNCHANGED cut
    /\ UNCHANGED flagVars
    /\ UNCHANGED readVars
    /\ UNCHANGED handleVars
    /\ UNCHANGED diskVars

\* unpack, lines 25-41: one turn of the header loop
UnpackStep ==
    /\ pc = "unpacking"
    /\ \E hbs \in {header_block_size(backend)} :
       \E r \in {read_exact(archive, pos, hbs)} :
           IF ~r.ok
           THEN /\ pos' = r.pos
                /\ rlog' = Append(rlog, R("header", pos, hbs, FALSE))
                /\ pc' = "done"
                /\ unpack_result' = "err"
                /\ UNCHANGED <<out_files, out_dirs, mlog>>
           ELSE IF is_eoa(backend, r.bytes)
           THEN /\ pos' = r.pos
                /\ rlog' = Append(rlog, R("header", pos, hbs, TRUE))
                /\ pc' = "done"
                /\ unpack_result' = "ok"
                /\ UNCHANGED <<out_files, out_dirs, mlog>>
           ELSE \E e \in {unpack_process_file(backend, archive, r.pos, r.bytes,
                                              out_files, out_dirs)} :
                    /\ pos' = e.pos
                    /\ rlog' = Append(rlog, R("header", pos, hbs, TRUE)) \o e.reads
                    /\ out_files' = e.files
                    /\ out_dirs' = e.dirs
                    /\ mlog' = mlog \o e.made
                    /\ IF e.ok
                       THEN UNCHANGED <<pc, unpack_result>>
                       ELSE pc' = "done" /\ unpack_result' = "err"
    /\ UNCHANGED <<backend, inputs>>
    /\ UNCHANGED packVars
    /\ UNCHANGED headerVars
    /\ UNCHANGED cut
    /\ UNCHANGED flagVars
    /\ UNCHANGED readVars
    /\ UNCHANGED handleVars
    /\ UNCHANGED diskVars

Next ==
    \/ PackBegin
    \/ WritePrologue
    \/ ProcessFile
    \/ WriteEpilogue
    \/ UnpackBegin
    \/ UnpackStep

Spec == Init /\ [][Next]_vars

\* ------------------------------------------------------------------------
\* The source tree of a pack run, walked independently of the pack driver
\* ------------------------------------------------------------------------

Node(archive_path, system_path) ==
    [archive_path |-> archive_path, system_path |-> system_path,
     kind |-> IF system_path \in DOMAIN HostFS THEN HostFS[system_path].kind ELSE "none"]

\* The node at system_path and, below a directory, the nodes of its
\* children, each child's subtree before the next child
RECURSIVE TreeNodes(_, _)
RECURSIVE ChildNodes(_, _, _, _)
TreeNodes(archive_path, system_path) ==
    <<Node(archive_path, system_path)>> \o
    (IF Node(archive_path, system_path).kind = "dir"
     THEN ChildNodes(archive_path, system_path, HostFS[system_path].listing, 1)
     ELSE <<>>)

ChildNodes(archive_path, system_path, listing, k) ==
    IF k > Len(listing) THEN <<>>
    ELSE TreeNodes(archive_path \o <<SEP>> \o listing[k], system_path \o <<SEP>> \o listing[k])
         \o ChildNodes(archive_path, system_path, listing, k + 1)

\* The last name of an input path made of names only
Basename(path) ==
    IF \E i \in 1..Len(path) : path[i] = SEP
    THEN SubSeq(path, 1 + (CHOOSE i \in 1..Len(path) :
                              path[i] = SEP /\ \A j \in (i + 1)..Len(path) : path[j] # SEP),
                Len(path))
    ELSE path

HasBasename(path) == path # <<>> /\ Basename(path) \notin {<<>>, DOT, DOTDOT}

RECURSIVE InputNodes(_, _)
InputNodes(files, k) ==
    IF k > Len(files) THEN <<>>
    ELSE TreeNodes(Basename(files[k]), files[k]) \o InputNodes(files, k + 1)

\* Every node of the inputs' trees, in depth-first order
SourceNodes == IF \A i \in DOMAIN inputs : HasBasename(inputs[i])
               THEN InputNodes(inputs, 1) ELSE <<>>

IsEntry(node) == node.kind \in {"file", "symlink"}

SourceEntries == SelectSeq(SourceNodes, IsEntry)

IsHeaderWrite(w) == w.kind = "header"

\* The archive paths of the entries written, in the order written
WrittenPaths == [k \in DOMAIN SelectSeq(wlog, IsHeaderWrite) |->
                    SelectSeq(wlog, IsHeaderWrite)[k].path]

IsPrefix(s, t) == Len(s) <= Len(t) /\ SubSeq(t, 1, Len(s)) = s

Dest(archive_path) == output_path \o <<SEP>> \o archive_path

\* The inputs are regular files, symbolic links and directories with a name
SupportedInputs ==
    \A i \in DOMAIN inputs :
        /\ HasBasename(inputs[i])
        /\ inputs[i] \in DOMAIN HostFS
        /\ HostFS[inputs[i]].kind \in {"file", "symlink", "dir"}

RegularInputs ==
    \A i \in DOMAIN inputs :
        inputs[i] \in DOMAIN HostFS /\ HostFS[inputs[i]].kind = "file"

Finished == pc = "done"

\* ------------------------------------------------------------------------
\* Claims about a pack run followed by an unpack run
\* ------------------------------------------------------------------------

\* C1: packing regular files and unpacking the archive into a fresh directory
\* leaves, for every input file, a file at its archive path under the
\* directory whose bytes are the input's bytes.
C1_RegularFilesRoundTrip ==
    (Finished /\ RegularInputs) =>
        /\ pack_result = "ok"
        /\ unpack_result = "ok"
        /\ \A i \in DOMAIN inputs :
              /\ Dest(Basename(inputs[i])) \in DOMAIN out_files
              /\ out_files[Dest(Basename(inputs[i]))].data = HostFS[inputs[i]].data

\* C2: packing files, symbolic links and directories and unpacking the
\* archive leaves a tree whose relative paths are those of the inputs' trees
\* under the inputs' basenames, empty directories included.
C2_TreePathsRoundTrip ==
    (Finished /\ SupportedInputs) =>
        /\ pack_result = "ok"
        /\ unpack_result = "ok"
        /\ {Dest(SourceNodes[k].archive_path) : k \in DOMAIN SourceNodes}
              = DOMAIN out_files \cup (out_dirs \ {output_path})

\* C3: every symbolic link packed is, after unpack, a symbolic link with the
\* original target at its archive path, and no payload bytes are written to
\* or read from the archive for it: every payload read reads payload bytes.
C3_SymlinksRoundTrip ==
    (Finished /\ SupportedInputs) =>
        /\ \A k \in DOMAIN SourceNodes :
              SourceNodes[k].kind = "symlink" =>
                /\ Dest(SourceNodes[k].archive_path) \in DOMAIN out_files
                /\ out_files[Dest(SourceNodes[k].archive_path)].kind = "symlink"
                /\ out_files[Dest(SourceNodes[k].archive_path)].data
                      = HostFS[SourceNodes[k].system_path].target
                /\ \A j \in DOMAIN wlog :
                      wlog[j].kind = "payload" => wlog[j].path # SourceNodes[k].archive_path
        /\ \A j \in DOMAIN rlog :
              (rlog[j].kind = "payload" /\ rlog[j].len > 0) =>
                \E i \in DOMAIN wlog :
                    /\ wlog[i].kind = "payload"
                    /\ wlog[i].off <= rlog[j].off
                    /\ rlog[j].off + rlog[j].len <= wlog[i].off + wlog[i].len

\* C4: after unpack every restored file has the mode, the owner, the group
\* and the modification time of its source, unpack running as the owner.
C4_MetadataRestored ==
    (Finished /\ SupportedInputs /\ pack_result = "ok" /\ unpack_result = "ok") =>
        \A k \in DOMAIN SourceNodes :
            (/\ SourceNodes[k].kind = "file"
             /\ Dest(SourceNodes[k].archive_path) \in DOMAIN out_files) =>
                /\ out_files[Dest(SourceNodes[k].archive_path)].mode
                      = HostFS[SourceNodes[k].system_path].mode
                /\ out_files[Dest(SourceNodes[k].archive_path)].uid
                      = HostFS[SourceNodes[k].system_path].uid
                /\ out_files[Dest(SourceNodes[k].archive_path)].gid
                      = HostFS[SourceNodes[k].system_path].gid
                /\ out_files[Dest(SourceNodes[k].archive_path)].mtime
                      = HostFS[SourceNodes[k].system_path].mtime

\* The size of a header block: 64 bytes in a BAG archive, 512 in a TAR archive
BlockSize == IF backend = "BAG" THEN 64 ELSE 512

\* The bytes read()
ReadBytes(r) == SubSeq(archive, r.off + 1, r.off + r.len)

NoSymlinkPacked == \A k \in DOMAIN SourceNodes : SourceNodes[k].kind # "symlink"

C9_WriteOrder ==
    /\ \A k \in DOMAIN wlog :
          /\ wlog[k].kind = "prologue" => k = 1
          /\ wlog[k].kind = "epilogue" => k = Len(wlog) /\ pack_result = "ok"
          /\ wlog[k].kind = "header" =>
                /\ k > 1 => wlog[k - 1].kind \in {"prologue", "name", "link", "header", "payload"}
                /\ backend = "BAG" =>
                      k < Len(wlog) /\ wlog[k + 1].kind = "name"
                                    /\ wlog[k + 1].path = wlog[k].path
          /\ wlog[k].kind \in {"name", "link", "payload"} =>
                /\ k > 1
                /\ wlog[k - 1].path = wlog[k].path
                /\ wlog[k - 1].kind \in
                      (CASE wlog[k].kind = "name" -> {"header"}
                         [] wlog[k].kind = "link" -> {"name"}
                         [] wlog[k].kind = "payload" ->
                              {IF backend = "BAG" THEN "name" ELSE "header", "payload"})
          /\ wlog[k].off = IF k = 1 THEN 0 ELSE wlog[k - 1].off + wlog[k - 1].len
    /\ wlog # <<>> => Len(archive) = wlog[Len(wlog)].off + wlog[Len(wlog)].len
    /\ (backend = "BAG" /\ pc \notin {"start", "prologue"} /\ pack_result # "err") =>
          wlog # <<>> /\ wlog[1].kind = "prologue"
    /\ pack_result = "ok" => wlog # <<>> /\ wlog[Len(wlog)].kind = "epilogue"
    /\ pack_result = "err" => \A k \in DOMAIN wlog : wlog[k].kind # "epilogue"

\* A pack run has succeeded that wrote an entry with a payload of several
\* chunks and another entry after it.
C9_Witness ==
    /\ pack_result = "ok"
    /\ \E k \in DOMAIN wlog :
          /\ k + 2 <= Len(wlog)
          /\ wlog[k].kind = "payload"
          /\ wlog[k + 1].kind = "payload"
          /\ wlog[k + 2].kind = "header"

\* C10: the entries are written in depth-first order, the inputs in the order
\* given and the children of a directory in listing order, and unpack
\* creates the entries in the order of the archive.
C10_DepthFirstOrder ==
    /\ IsPrefix(WrittenPaths, [k \in DOMAIN SourceEntries |-> SourceEntries[k].archive_path])
    /\ pack_result = "ok" => Len(WrittenPaths) = Len(SourceEntries)
    /\ IsPrefix(mlog, [k \in DOMAIN WrittenPaths |-> Dest(WrittenPaths[k])])
    /\ unpack_result = "ok" => Len(mlog) = Len(WrittenPaths)

\* A directory with a subdirectory and a second input have been packed and
\* unpacked.
C10_Witness ==
    /\ pack_result = "ok"
    /\ unpack_result = "ok"
    /\ Len(inputs) = 2
    /\ inputs[1] = nG
    /\ inputs[2] = nD
    /\ Len(mlog) >= 5

\* ------------------------------------------------------------------------
\* An entry header serialised, one byte of the block possibly changed, and
\* the block deserialised (FileHeader of src/backend/bag/header.rs, Header
\* of src/header.rs)
\* ------------------------------------------------------------------------

serialize_header(packer, header) ==
    IF packer = "BAG" THEN FileHeader_serialize(header)
    ELSE [header |-> Header_serialize(header), file_name |-> <<>>, link_name |-> <<>>]

deserialize_header(packer, bytes) ==
    IF packer = "BAG" THEN FileHeader_deserialize(bytes) ELSE Header_deserialize(bytes)

LongName(n) == [i \in 1..n |-> 97 + (i % 26)]

\* The header values: sizes, modes and ids up to the largest value of the
\* model's integers, time stamps before and after the epoch, each type flag,
\* names of 1, 2 (one character of two bytes), 100 and 101 bytes, and a name
\* of two bytes that is not UTF-8.
HeaderNames == {nF, <<195, 169>>, <<102, 255>>, LongName(100), LongName(101)}

HeaderNumbers ==
    {[file_size |-> 4, file_mode |-> 33188, user_id |-> 1000, group_id |-> 100,
      created_at |-> 1700000105, last_modified |-> 1700000100],
     [file_size |-> 2147483647, file_mode |-> 2147483647, user_id |-> 0,
      group_id |-> 2147483647, created_at |-> -1, last_modified |-> -2147483647],
     [file_size |-> 0, file_mode |-> 0, user_id |-> 65534, group_id |-> 0,
      created_at |-> 0, last_modified |-> -86400]}

HeaderKinds ==
    {[type_flag |-> "Regular", link_name |-> None],
     [type_flag |-> "HardLink", link_name |-> None],
     [type_flag |-> "SymLink", link_name |-> Some(P(DOTDOT, nF))]}

HeaderValues ==
    {[file_name |-> name, file_size |-> n.file_size, file_mode |-> n.file_mode,
      user_id |-> n.user_id, group_id |-> n.group_id, created_at |-> n.created_at,
      last_modified |-> n.last_modified, type_flag |-> k.type_flag,
      link_name |-> k.link_name] :
        name \in HeaderNames, n \in HeaderNumbers, k \in HeaderKinds}

\* What a changed byte differs by from the byte written
ByteChanges == {1, 255}

HeaderInit ==
    /\ backend \in {"BAG", "TAR"}
    /\ hdr \in HeaderValues
    /\ hblock = NoBlock
    /\ changed = -1
    /\ decoded = NotDecoded
    /\ cut = -1
    /\ flag_in = "none"
    /\ flag_byte = 0
    /\ flag_out = NoFlag
    /\ read_size = 0
    /\ read_out = NoRead
    /\ open_handles = <<>>
    /\ peak = 0
    /\ on_disk = 0
    /\ disk_ok = TRUE
    /\ pc = "new"
    /\ inputs = <<>>
    /\ worklist = <<>>
    /\ archive = <<>>
    /\ wlog = <<>>
    /\ pack_result = "none"
    /\ pos = 0
    /\ rlog = <<>>
    /\ out_files = NoFiles
    /\ out_dirs = {output_path}
    /\ mlog = <<>>
    /\ unpack_result = "none"

runVars == <<backend, inputs, worklist, archive, wlog, pack_result, pos, rlog,
             out_files, out_dirs, mlog, unpack_result, cut,
             flag_in, flag_byte, flag_out, read_size, read_out,
             open_handles, peak, on_disk, disk_ok>>

\* FileHeader::serialize, Header::serialize
SerializeHeader ==
    /\ pc = "new"
    /\ hblock' = serialize_header(backend, hdr)
    /\ pc' = "serialized"
    /\ UNCHANGED <<hdr, changed, decoded>>
    /\ UNCHANGED runVars

\* One byte of the stored block takes another value
ChangeByte ==
    /\ pc = "serialized"
    /\ \E i \in 0..(Len(hblock.header) - 1), x \in ByteChanges :
           /\ hblock' = [hblock EXCEPT !.header[i + 1] = Xor8(@, x)]
           /\ changed' = i
    /\ pc' = "changed"
    /\ UNCHANGED <<hdr, decoded>>
    /\ UNCHANGED runVars

\* FileHeader::deserialize, Header::deserialize
DeserializeHeader ==
    /\ pc \in {"serialized", "changed"}
    /\ decoded' = deserialize_header(backend, hblock.header)
    /\ pc' = "decoded"
    /\ UNCHANGED <<hdr, hblock, changed>>
    /\ UNCHANGED runVars

HeaderNext ==
    \/ SerializeHeader
    \/ ChangeByte
    \/ DeserializeHeader

SpecHeader == HeaderInit /\ [][HeaderNext]_vars

\* The header block with its checksum field (bytes 53..56) set to zero
BagChecksumZeroed(block) ==
    [i \in 1..Len(block) |-> IF i \in 54..57 THEN 0 ELSE block[i]]

LinkNameLen(header) == IF header.link_name = None THEN 0 ELSE Len(header.link_name[1])

\* C5: deserialising the block a header value was serialised to succeeds and
\* returns equal file_size, file_mode, user_id, group_id, last_modified and
\* type_flag; BAG: also an equal created_at and name sizes equal to the byte
\* lengths of the names; TAR: also an equal file name when the name has at
\* most 100 bytes.
C5_HeaderRoundTrip ==
    (pc = "decoded" /\ changed = -1) =>
        /\ decoded.ok
        /\ decoded.header.file_size = hdr.file_size
        /\ decoded.header.file_mode = hdr.file_mode
        /\ decoded.header.user_id = hdr.user_id
        /\ decoded.header.group_id = hdr.group_id
        /\ decoded.header.last_modified = hdr.last_modified
        /\ decoded.header.type_flag = hdr.type_flag
        /\ backend = "BAG" =>
              /\ decoded.header.created_at = hdr.created_at
              /\ decoded.file_name_size = Len(hdr.file_name)
              /\ decoded.link_name_size = LinkNameLen(hdr)
        /\ (backend = "TAR" /\ Len(hdr.file_name) <= 100) =>
              decoded.header.file_name = hdr.file_name

\* The bytes of a TAR header block between the four bytes of the stored
\* checksum and the type flag: the zeros that pad the checksum field to 8 bytes
TarChecksumPadding == 152..155

\* C6 (amended): a serialised entry header with one byte changed, in bytes
\* 0..56 of a BAG block or in bytes 0..256 of a TAR block other than the
\* four bytes 152..155 that pad the checksum field, is refused by deserialize
\* with a checksum mismatch; a change in bytes 152..155 of a TAR block is not
\* noticed and the header is returned as it was serialised.
C6_ChangedByteRefused ==
    (pc = "decoded" /\ changed # -1) =>
        /\ (backend = "BAG" /\ changed \in 0..56) =>
              ~decoded.ok /\ decoded.err = "checksum"
        /\ (backend = "TAR" /\ changed \in (0..256) \ TarChecksumPadding) =>
              ~decoded.ok /\ decoded.err = "checksum"
        /\ (backend = "TAR" /\ changed \in TarChecksumPadding) =>
              decoded = Header_deserialize(Header_serialize(hdr))

\* C6 as stated: a change of any one of bytes 0..56 (BAG) or 0..256 (TAR)
\* makes deserialize return a checksum mismatch.
C6_AnyByteRefused ==
    (pc = "decoded" /\ changed \in (IF backend = "BAG" THEN 0..56 ELSE 0..256)) =>
        ~decoded.ok /\ decoded.err = "checksum"

\* The type flag byte of a TAR block and a byte of the stored checksum of a
\* BAG block were changed and the blocks refused.
C6_Witness ==
    /\ pc = "decoded"
    /\ \/ backend = "TAR" /\ changed = 156
       \/ backend = "BAG" /\ changed = 53
    /\ ~decoded.ok
    /\ decoded.err = "checksum"
    /\ hdr.last_modified < 0

\* C7 (amended): the checksum stored in a BAG entry header is the CRC-32 of
\* the 57 bytes of the header's fields (bytes 0..56 of the block) with the
\* checksum field zero; the reserved bytes 57..63 are not part of it.
\* deserialize compares the stored bytes 53..56 with the CRC-32 of the same
\* 57 bytes of the block it was given.
C7_ChecksumOfFields ==
    backend = "BAG" =>
        /\ pc \in {"serialized", "changed"} =>
              /\ Len(hblock.header) = 64
              /\ changed = -1 =>
                    checksum_from_le_bytes(Slice(hblock.header, 53, 57))
                        = crc32(Slice(BagChecksumZeroed(hblock.header), 0, 57))
        /\ pc = "decoded" =>
              /\ decoded.stored_checksum = checksum_from_le_bytes(Slice(hblock.header, 53, 57))
              /\ decoded.calc_checksum = crc32(Slice(BagChecksumZeroed(hblock.header), 0, 57))
              /\ changed \in 57..63 => decoded.ok

\* C7 as stated: the checksum is the CRC-32 of all 64 bytes of the block
\* with the checksum field zero, at serialisation and at deserialisation.
C7_ChecksumOfBlock ==
    backend = "BAG" =>
        /\ (pc = "serialized") =>
              checksum_from_le_bytes(Slice(hblock.header, 53, 57))
                  = crc32(BagChecksumZeroed(hblock.header))
        /\ pc = "decoded" =>
              decoded.calc_checksum = crc32(BagChecksumZeroed(hblock.header))

\* A BAG header block with a reserved byte changed has been deserialised
\* and accepted.
C7_Witness ==
    /\ backend = "BAG"
    /\ pc = "decoded"
    /\ changed \in 57..63
    /\ decoded.ok
    /\ decoded.header.type_flag = "SymLink"

\* ------------------------------------------------------------------------
\* Claims about the entries a pack run writes
\* ------------------------------------------------------------------------

HeaderWrites == SelectSeq(wlog, IsHeaderWrite)

\* The header block a header write put into the archive
WrittenBlock(w) == SubSeq(archive, w.off + 1, w.off + w.len)

\* The type flag byte of a written header block: byte 44 of a BAG block,
\* byte 156 of a TAR block
TypeFlagByte(block) == IF backend = "BAG" THEN block[44 + 1] ELSE block[156 + 1]

\* The byte each backend writes for a type flag
FlagByteOf(flag) ==
    IF backend = "BAG"
    THEN (CASE flag = "Regular" -> 0 [] flag = "HardLink" -> 1 [] flag = "SymLink" -> 2)
    ELSE (CASE flag = "Regular" -> 48 [] flag = "HardLink" -> 49 [] flag = "SymLink" -> 50)

\* C11: pack writes no entry for a directory: no header written has the type
\* flag of a directory (HardLink), and the headers written are those of the
\* regular files and symlinks of the inputs' trees, one each, all of them
\* when pack succeeds.
C11_NoDirectoryEntry ==
    /\ \A k \in DOMAIN HeaderWrites :
          /\ TypeFlagByte(WrittenBlock(HeaderWrites[k])) # FlagByteOf("HardLink")
          /\ k <= Len(SourceEntries)
          /\ HeaderWrites[k].path = SourceEntries[k].archive_path
          /\ TypeFlagByte(WrittenBlock(HeaderWrites[k])) =
                FlagByteOf(IF SourceEntries[k].kind = "symlink" THEN "SymLink" ELSE "Regular")
    /\ pack_result = "ok" => Len(HeaderWrites) = Len(SourceEntries)

\* A directory with an empty subdirectory, a subdirectory with a file, files
\* and a symlink has been packed.
C11_Witness ==
    /\ pack_result = "ok"
    /\ \E i \in DOMAIN inputs : inputs[i] = nD
    /\ \E k \in DOMAIN SourceNodes : SourceNodes[k].kind = "dir"
    /\ Len(HeaderWrites) >= 4
    /\ Len(SourceNodes) > Len(HeaderWrites)

\* The file_size field of a written header block
FileSizeField(block) ==
    IF backend = "BAG" THEN bag_bytes_to_u64(Slice(block, 8, 16))
    ELSE tar_bytes_to_u64(Slice(block, 124, 136))

\* The length of the link name a written header block carries: the
\* link_name_size field of a BAG block, the bytes before the first zero of
\* the link name field of a TAR block
LinkNameLength(block) ==
    IF backend = "BAG" THEN bag_bytes_to_u64(Slice(block, 45, 53))
    ELSE FirstZero(Slice(block, 157, 257))

\* C12: in every entry header pack writes, a file_size above zero comes with
\* the type flag Regular, and the type flag SymLink comes with a link name
\* that is not empty.
C12_HeaderFieldsConsistent ==
    \A k \in DOMAIN HeaderWrites :
        /\ FileSizeField(WrittenBlock(HeaderWrites[k])) > 0 =>
              TypeFlagByte(WrittenBlock(HeaderWrites[k])) = FlagByteOf("Regular")
        /\ TypeFlagByte(WrittenBlock(HeaderWrites[k])) = FlagByteOf("SymLink") =>
              LinkNameLength(WrittenBlock(HeaderWrites[k])) > 0

\* ------------------------------------------------------------------------
\* Claims about the bytes unpack reads
\* ------------------------------------------------------------------------

\* The header block at the reader's position
EntryBlock == SubSeq(archive, pos + 1, pos + BlockSize)

\* Where the payload of the entry at the reader's position starts: after the
\* header block and, in a BAG archive, the file name
PayloadStart ==
    pos + BlockSize +
    (IF backend = "BAG" THEN bag_bytes_to_u64(Slice(EntryBlock, 0, 8)) ELSE 0)

\* The unpack loop stands before the header block of a Regular entry
AtRegularEntry ==
    /\ pc = "unpacking"
    /\ pos + BlockSize <= Len(archive)
    /\ ~AllZero(EntryBlock)
    /\ TypeFlagByte(EntryBlock) \in {0, 48}

IsPayloadRead(r) == r.kind = "payload"

RECURSIVE SumLen(_, _)
SumLen(reads, k) == IF k = 0 THEN 0 ELSE reads[k].len + SumLen(reads, k - 1)

\* C13: for a Regular entry whose header has file_size = n, unpack reads the
\* n bytes that follow the header (and name) in chunks of at most 8192 bytes,
\* stands right after them when the entry is done, has written exactly these
\* bytes to the destination file, and reads no byte beyond them; when fewer
\* than n bytes are left the entry fails.
C13_PayloadExact ==
    [][ AtRegularEntry =>
          LET n == FileSizeField(EntryBlock)
              start == PayloadStart
              new == SelectSeq(SubSeq(rlog', Len(rlog) + 1, Len(rlog')), IsPayloadRead)
          IN  /\ \A k \in DOMAIN new :
                    /\ new[k].off = (IF k = 1 THEN start ELSE new[k - 1].off + new[k - 1].len)
                    /\ new[k].len <= READ_BUFFER_SIZE
                    /\ new[k].off + new[k].len <= start + n
              /\ (pc' = "unpacking") =>
                    /\ mlog' # mlog
                    /\ pos' = start + n
                    /\ SumLen(new, Len(new)) = n
                    /\ out_files'[mlog'[Len(mlog')]].data = SubSeq(archive, start + 1, start + n)
              /\ (mlog' # mlog /\ start + n > Len(archive)) => unpack_result' = "err"
      ]_vars

\* Unpack has restored files of 8191, 8192 and 8193 bytes, the last one in
\* chunks of 8192 bytes and of 1 byte, and has gone on to the next header.
C13_Witness ==
    /\ unpack_result = "ok"
    /\ Len(inputs) = 1
    /\ \E k \in DOMAIN rlog : rlog[k].kind = "payload" /\ rlog[k].len = 8191
    /\ \E k \in DOMAIN rlog :
          /\ k + 2 <= Len(rlog)
          /\ rlog[k].kind = "payload" /\ rlog[k].len = 8192
          /\ rlog[k + 1].kind = "payload" /\ rlog[k + 1].len = 1
          /\ rlog[k + 2].kind = "header"
    /\ \E q \in DOMAIN out_files : Len(out_files[q].data) = 8193

\* ------------------------------------------------------------------------
\* A pack run, the archive truncated, and an unpack run of what is left
\* ------------------------------------------------------------------------

IsEpilogueWrite(w) == w.kind = "epilogue"

\* Where the first end-of-archive block of a complete archive ends
FirstEoaEnd == SelectSeq(wlog, IsEpilogueWrite)[1].off + BlockSize

\* Archives whose first end-of-archive block ends within this many bytes
\* are truncated to every shorter length
FullCutLen == 600

\* The lengths an archive is truncated to: for every write of pack, the
\* lengths that end the archive before it, after its first byte, in its
\* middle and before its last byte, up to the first end-of-archive block;
\* every length for a short archive
TruncationOffsets ==
    {t \in UNION {{wlog[k].off, wlog[k].off + 1,
                   wlog[k].off + (wlog[k].len \div 2),
                   wlog[k].off + wlog[k].len - 1,
                   wlog[k].off + (BlockSize \div 2)} : k \in DOMAIN wlog} :
        t >= 0 /\ t < FirstEoaEnd}
    \cup {FirstEoaEnd - 1}
    \cup (IF FirstEoaEnd <= FullCutLen THEN 0..(FirstEoaEnd - 1) ELSE {})

\* The archive file loses its end between pack and unpack
Truncate ==
    /\ pc = "packed"
    /\ pack_result = "ok"
    /\ cut = -1
    /\ \E t \in TruncationOffsets :
           /\ archive' = SubSeq(archive, 1, t)
           /\ cut' = t
    /\ UNCHANGED <<backend, inputs, pc, worklist, wlog, pack_result>>
    /\ UNCHANGED unpackVars
    /\ UNCHANGED headerVars
    /\ UNCHANGED flagVars
    /\ UNCHANGED readVars
    /\ UNCHANGED handleVars
    /\ UNCHANGED diskVars

NextTruncated ==
    \/ PackBegin
    \/ WritePrologue
    \/ ProcessFile
    \/ WriteEpilogue
    \/ Truncate
    \/ UnpackBegin
    \/ UnpackStep

\* The pack runs whose archives are truncated: those without the inputs k
\* and w
TruncatedInit == Init /\ \A i \in DOMAIN inputs : inputs[i] \notin {nK, nW}

SpecTruncated == TruncatedInit /\ [][NextTruncated]_vars

\* C14: unpack of an archive that pack wrote and that was then truncated
\* before the end of its first end-of-archive block never succeeds; once it
\* has finished it has returned an error.
C14_TruncatedArchiveFails ==
    cut # -1 =>
        /\ unpack_result # "ok"
        /\ pc = "done" => unpack_result = "err"

\* An archive cut inside the payload of its second entry has been unpacked:
\* the first entry was restored and the run ended with an error.
C14_Witness ==
    /\ cut # -1
    /\ pc = "done"
    /\ unpack_result = "err"
    /\ Len(mlog) = 2
    /\ \E k \in DOMAIN wlog :
          wlog[k].kind = "payload" /\ wlog[k].off < cut /\ cut < wlog[k].off + wlog[k].len
    /\ rlog[Len(rlog)].kind = "payload"
    /\ ~rlog[Len(rlog)].ok

\* ------------------------------------------------------------------------
\* Claims about the encoding of single headers
\* ------------------------------------------------------------------------

\* C15: serialising a TAR header whose file name is longer than 100 bytes
\* fails: no header block comes out of it.
C15_LongNameRejected ==
    (backend = "TAR" /\ pc \in {"serialized", "changed", "decoded"}
                     /\ Len(hdr.file_name) > 100) =>
        hblock = NoBlock

\* ------------------------------------------------------------------------
\* pack_file of the backends (src/backend/tar.rs 48-79, src/backend/bag.rs
\* 85-137): the header and the payload of one regular file
\* ------------------------------------------------------------------------

\* tar.rs 72-75: the bytes of the read buffer before its first zero byte
take_while_nonzero(buffer) == SubSeq(buffer, 1, FirstZero(buffer))

\* tar.rs 66-77: each read fills the front of the 8192-byte buffer and leaves
\* the rest of it as it was; what is written is the buffer up to its first
\* zero byte.
RECURSIVE tar_pack_file_loop(_, _, _)
tar_pack_file_loop(data, total_bytes_read, buffer) ==
    With(Min(READ_BUFFER_SIZE, Len(data) - total_bytes_read), LAMBDA bytes_read :
        IF bytes_read = 0 THEN <<>>
        ELSE With(SubSeq(data, total_bytes_read + 1, total_bytes_read + bytes_read)
                      \o SubSeq(buffer, bytes_read + 1, READ_BUFFER_SIZE), LAMBDA filled :
                <<take_while_nonzero(filled)>>
                    \o tar_pack_file_loop(data, total_bytes_read + bytes_read, filled)))

tar_pack_file(file, metadata) ==
    With(Header_new(file.archive_path, metadata), LAMBDA header :
    With(IF file.system_path \in DOMAIN HostFS THEN HostFS[file.system_path] ELSE FifoNode,
         LAMBDA node :
    With(IF node.kind = "file"
         THEN tar_pack_file_loop(node.data, 0, Zeros(READ_BUFFER_SIZE)) ELSE <<>>,
         LAMBDA chunks :
        [ok |-> node.kind = "file",
         writes |-> <<W("header", file.archive_path, Header_serialize(header))>> \o
                    [i \in 1..Len(chunks) |-> W("payload", file.archive_path, chunks[i])]])))

\* bag.rs 120-130: the reads of a file of at least 8192 bytes
RECURSIVE bag_pack_file_loop(_, _, _)
bag_pack_file_loop(data, file_size, total_bytes_read) ==
    IF ~(total_bytes_read < file_size) THEN <<>>
    ELSE With(Min(READ_BUFFER_SIZE, Len(data) - total_bytes_read), LAMBDA bytes_read :
            IF bytes_read = 0 THEN <<>>
            ELSE <<SubSeq(data, total_bytes_read + 1, total_bytes_read + bytes_read)>>
                     \o bag_pack_file_loop(data, file_size, total_bytes_read + bytes_read))

\* bag.rs 85-137: the header block, the file name, then the payload; the
\* header is built from the path and the metadata alone.
bag_pack_file(file, metadata) ==
    With(FileHeader_new(file.archive_path, metadata, None), LAMBDA header :
    With(FileHeader_serialize(header), LAMBDA header_block :
    With(IF file.system_path \in DOMAIN HostFS THEN HostFS[file.system_path] ELSE FifoNode,
         LAMBDA node :
    With(IF node.kind # "file" THEN <<>>
         ELSE IF header.file_size < READ_BUFFER_SIZE
         THEN <<SubSeq(node.data, 1, header.file_size)>>
         ELSE bag_pack_file_loop(node.data, header.file_size, 0), LAMBDA chunks :
        [ok |-> node.kind = "file",
         writes |-> <<W("header", file.archive_path, header_block.header),
                      W("name", file.archive_path, header_block.file_name)>> \o
                    [i \in 1..Len(chunks) |-> W("payload", file.archive_path, chunks[i])]]))))

pack_file(packer, file, metadata) ==
    IF packer = "BAG" THEN bag_pack_file(file, metadata) ELSE tar_pack_file(file, metadata)

\* The regular files pack_file is given
RegularPaths == {p \in DOMAIN HostFS : HostFS[p].kind = "file"}

PackFileInit ==
    /\ Init
    /\ \A i \in DOMAIN inputs : inputs[i] \in RegularPaths

\* pack_file for the next FilePath, with the metadata of its system path
PackFile ==
    /\ pc = "files"
    /\ worklist # <<>>
    /\ \E done \in {pack_file(backend, Head(worklist),
                              symlink_metadata(Head(worklist).system_path))} :
           /\ Written(done.writes)
           /\ Handles(Head(worklist), done.ok /\ WriterOk(done.writes))
           /\ Flushed(done.writes, ~(done.ok /\ WriterOk(done.writes)))
           /\ IF done.ok /\ WriterOk(done.writes)
              THEN /\ worklist' = Tail(worklist)
                   /\ UNCHANGED <<pc, pack_result>>
              ELSE /\ worklist' = <<>>
                   /\ pc' = "packed"
                   /\ pack_result' = "err"
    /\ UNCHANGED <<backend, inputs>>
    /\ UNCHANGED unpackVars
    /\ UNCHANGED headerVars
    /\ UNCHANGED cut
    /\ UNCHANGED flagVars
    /\ UNCHANGED readVars
    /\ UNCHANGED disk_ok

NextPackFile ==
    \/ PackBegin
    \/ WritePrologue
    \/ PackFile
    \/ WriteEpilogue

SpecPackFile == PackFileInit /\ [][NextPackFile]_vars

\* The bytes of the source file of the k-th header written
SourceData(k) == HostFS[inputs[k]].data

\* The offset of the write after the last write of entry k: the next header
\* or the epilogue
EntryEnd(k) ==
    IF k < Len(HeaderWrites) THEN HeaderWrites[k + 1].off
    ELSE SelectSeq(wlog, IsEpilogueWrite)[1].off

\* C16: in a TAR archive the header of every Regular entry is followed by
\* exactly file_size payload bytes, the bytes of the source file whatever
\* their values, with no padding before the next header or the epilogue; an
\* archive of one file of n bytes is 512 + n + 1024 bytes long.
C16_TarPayloadVerbatim ==
    (backend = "TAR" /\ pack_result = "ok") =>
        /\ \A k \in DOMAIN HeaderWrites :
              LET w == HeaderWrites[k]
                  n == FileSizeField(WrittenBlock(w))
              IN  /\ w.len = 512
                  /\ n = Len(SourceData(k))
                  /\ SubSeq(archive, w.off + 512 + 1, w.off + 512 + n) = SourceData(k)
                  /\ EntryEnd(k) = w.off + 512 + n
        /\ Len(inputs) = 1 => Len(archive) = 512 + Len(SourceData(1)) + 1024

\* The index in wlog of the first header or epilogue write after index i, or
\* one past the end of wlog
RECURSIVE NextBoundary(_)
NextBoundary(i) ==
    IF i + 1 > Len(wlog) \/ wlog[i + 1].kind \in {"header", "epilogue"} THEN i + 1
    ELSE NextBoundary(i + 1)

\* The offset at which the write of index i starts, the archive's end for
\* the index one past the last write
OffsetOf(i) == IF i <= Len(wlog) THEN wlog[i].off ELSE Len(archive)

\* The kinds of the writes from index i up to, not including, index j
Kinds(i, j) == [k \in 1..(j - i) |-> wlog[i + k - 1].kind]

\* The offsets at which an entry header or the epilogue starts, in order
IsBoundaryWrite(w) == w.kind \in {"header", "epilogue"}

Boundaries == SelectSeq(wlog, IsBoundaryWrite)

PrologueOffsets == (0..8) \cup {63}

\* The values a byte is changed to
PrologueBytes == {0, 1, 49, 50}

\* One byte of the global header of a packed BAG archive is changed before
\* unpack opens the archive; `changed` is its offset.
AlterPrologue ==
    /\ pc = "packed"
    /\ pack_result = "ok"
    /\ backend = "BAG"
    /\ changed = -1
    /\ \E i \in PrologueOffsets : \E v \in PrologueBytes :
           /\ v # archive[i + 1]
           /\ archive' = [archive EXCEPT ![i + 1] = v]
           /\ changed' = i
    /\ UNCHANGED <<backend, inputs, pc, worklist, wlog, pack_result>>
    /\ UNCHANGED unpackVars
    /\ UNCHANGED <<hdr, hblock, decoded>>
    /\ UNCHANGED cut
    /\ UNCHANGED flagVars
    /\ UNCHANGED readVars
    /\ UNCHANGED handleVars
    /\ UNCHANGED diskVars

NextPrologue ==
    \/ PackBegin
    \/ WritePrologue
    \/ ProcessFile
    \/ WriteEpilogue
    \/ AlterPrologue
    \/ UnpackBegin
    \/ UnpackStep

SpecPrologue == Init /\ [][NextPrologue]_vars

\* read_prologue has returned, and returned Ok
PrologueRead == pc \in {"unpacking", "done"} /\ rlog # <<>>

PrologueAccepted == pc = "unpacking" \/ Len(rlog) > 1

\* C18: read_prologue of BAG succeeds exactly when the first 64 bytes of the
\* archive start with "BAG AF." and byte 7 has the value 1; otherwise unpack
\* fails and processes no entry.
C18_PrologueStrict ==
    (backend = "BAG" /\ PrologueRead) =>
        /\ PrologueAccepted <=>
              /\ Len(archive) >= 64
              /\ SubSeq(archive, 1, 7) = PREAMBLE
              /\ archive[7 + 1] = 1
        /\ ~PrologueAccepted =>
              /\ pc = "done" /\ unpack_result = "err"
              /\ mlog = <<>> /\ out_files = NoFiles /\ Len(rlog) = 1

\* ------------------------------------------------------------------------
\* The BAG type flag and its byte (src/backend/bag/header.rs 298-325)
\* ------------------------------------------------------------------------

TypeFlags == {"Regular", "HardLink", "SymLink"}

TypeFlagInit ==
    /\ backend = "BAG"
    /\ pc = "new"
    /\ flag_in = "none"
    /\ flag_byte = 0
    /\ flag_out = NoFlag
    /\ read_size = 0
    /\ read_out = NoRead
    /\ open_handles = <<>>
    /\ peak = 0
    /\ on_disk = 0
    /\ disk_ok = TRUE
    /\ hdr = NoHeader
    /\ hblock = NoBlock
    /\ changed = -1
    /\ decoded = NotDecoded
    /\ cut = -1
    /\ inputs = <<>>
    /\ worklist = <<>>
    /\ archive = <<>>
    /\ wlog = <<>>
    /\ pack_result = "none"
    /\ pos = 0
    /\ rlog = <<>>
    /\ out_files = NoFiles
    /\ out_dirs = {output_path}
    /\ mlog = <<>>
    /\ unpack_result = "none"

\* The byte given to TypeFlag::from_byte
FlagBytes ==
    /\ pc = "new"
    /\ \E b \in Byte : flag_byte' = b
    /\ pc' = "flag_byte"
    /\ UNCHANGED <<flag_in, flag_out>>
    /\ UNCHANGED headerVars
    /\ UNCHANGED <<backend, inputs, worklist, archive, wlog, pack_result, cut>>
    /\ UNCHANGED readVars
    /\ UNCHANGED handleVars
    /\ UNCHANGED diskVars
    /\ UNCHANGED unpackVars

\* `flag as u8`
EncodeFlag ==
    /\ pc = "new"
    /\ \E f \in TypeFlags :
           /\ flag_in' = f
           /\ flag_byte' = bag_type_flag_as_u8(f)
    /\ pc' = "flag_byte"
    /\ UNCHANGED flag_out
    /\ UNCHANGED headerVars
    /\ UNCHANGED <<backend, inputs, worklist, archive, wlog, pack_result, cut>>
    /\ UNCHANGED readVars
    /\ UNCHANGED handleVars
    /\ UNCHANGED diskVars
    /\ UNCHANGED unpackVars

\* TypeFlag::from_byte
DecodeFlag ==
    /\ pc = "flag_byte"
    /\ flag_out' = bag_TypeFlag_from_byte(flag_byte)
    /\ pc' = "flag_decoded"
    /\ UNCHANGED <<flag_in, flag_byte>>
    /\ UNCHANGED headerVars
    /\ UNCHANGED <<backend, inputs, worklist, archive, wlog, pack_result, cut>>
    /\ UNCHANGED readVars
    /\ UNCHANGED handleVars
    /\ UNCHANGED diskVars
    /\ UNCHANGED unpackVars

NextTypeFlag ==
    \/ FlagBytes
    \/ EncodeFlag
    \/ DecodeFlag

SpecTypeFlag == TypeFlagInit /\ [][NextTypeFlag]_vars

\* C19: a BAG type flag encoded as its byte (Regular 0, HardLink 1,
\* SymLink 2) decodes to the same flag, and a byte decodes to a flag exactly
\* when its value is 0, 1 or 2; every other byte is an invalid type flag.
C19_TypeFlagBytes ==
    pc = "flag_decoded" =>
        /\ flag_in # "none" =>
              /\ flag_byte = (CASE flag_in = "Regular" -> 0
                                [] flag_in = "HardLink" -> 1
                                [] flag_in = "SymLink" -> 2)
              /\ flag_out = [ok |-> TRUE, flag |-> flag_in]
        /\ flag_out.ok <=> flag_byte \in {0, 1, 2}
        /\ ~flag_out.ok => flag_out.flag = "Invalid typeflag byte"

\* C20: the error for a BAG entry header whose stored checksum differs from
\* the recomputed one names the entry's archive path, the file name stored
\* with the header and not an empty name, and carries the stored and the
\* computed checksum.
C20_ChecksumErrorNamesEntry ==
    (backend = "BAG" /\ pc = "decoded" /\ decoded.err = "checksum"
       /\ hblock.file_name # <<>>) =>
        /\ decoded.err_name = bag_bytes_to_path(hblock.file_name)
        /\ decoded.err_name # <<>>
        /\ decoded.stored_checksum = checksum_from_le_bytes(Slice(hblock.header, 53, 57))
        /\ decoded.calc_checksum = crc32(Slice(BagChecksumZeroed(hblock.header), 0, 57))
        /\ decoded.calc_checksum # decoded.stored_checksum

\* A path none of whose components is `..`
NoDotDot(path) == \A k \in DOMAIN Components(path) : Components(path)[k][2] # DOTDOT

\* C21: every FilePath of the pack driver has a non-empty archive path
\* without a `..` component; an input's archive path is its basename and a
\* child c of a directory with archive path P has P/c; an input without a
\* final name component makes pack fail before anything is written.
C21_ArchivePaths ==
    /\ \A k \in DOMAIN worklist :
          /\ worklist[k].archive_path # <<>>
          /\ NoDotDot(worklist[k].archive_path)
          /\ \E n \in DOMAIN SourceNodes :
                /\ SourceNodes[n].archive_path = worklist[k].archive_path
                /\ SourceNodes[n].system_path = worklist[k].system_path
    /\ pc = "prologue" =>
          /\ Len(worklist) = Len(inputs)
          /\ \A i \in DOMAIN inputs :
                worklist[i] = [archive_path |-> Basename(inputs[i]),
                               system_path |-> inputs[i]]
    /\ (pc # "start" /\ \E i \in DOMAIN inputs : ~HasBasename(inputs[i])) =>
          /\ pack_result = "err"
          /\ worklist = <<>> /\ wlog = <<>> /\ archive = <<>>

\* The driver holds the FilePath of a file two directories below an input,
\* next to the FilePath of an input given with a directory prefix.
C21_Witness ==
    /\ pc = "files"
    /\ \E k \in DOMAIN worklist :
          /\ worklist[k].archive_path = P(P(nD, nS), nC)
          /\ worklist[k].system_path = P(P(nD, nS), nC)
    /\ \E k \in DOMAIN worklist :
          /\ worklist[k].archive_path = nA
          /\ worklist[k].system_path = P(nX, nA)

\* ------------------------------------------------------------------------
\* A run that is not stopped: the driver takes its next step while it has one
\* ------------------------------------------------------------------------

\* The pack runs whose inputs hold no file of a read buffer's size or more
PackLiveInit ==
    /\ Init
    /\ \A i \in DOMAIN inputs : inputs[i] \notin {nG, nH}

NextPack ==
    \/ PackBegin
    \/ WritePrologue
    \/ ProcessFile
    \/ WriteEpilogue

\* The FilePaths of the trees of these inputs
LiveFilePaths ==
    UNION {{FilePath(TreeNodes(Basename(p), p)[k].archive_path,
                     TreeNodes(Basename(p), p)[k].system_path) :
               k \in DOMAIN TreeNodes(Basename(p), p)} :
           p \in {q \in InputPaths \ {nG, nH} : HasBasename(q)}}

\* process_file for each backend and each of these FilePaths
process_file_of ==
    [packer \in {"BAG", "TAR"} |-> [fd \in LiveFilePaths |-> process_file(packer, fd)]]

\* ProcessFile, with what process_file does read from process_file_of
ProcessFileStep ==
    /\ pc = "files"
    /\ worklist # <<>>
    /\ \E done \in {process_file_of[backend][Head(worklist)]} :
           /\ Written(done.writes)
           /\ Handles(Head(worklist), done.ok /\ WriterOk(done.writes))
           /\ Flushed(done.writes, ~(done.ok /\ WriterOk(done.writes)))
           /\ IF done.ok /\ WriterOk(done.writes)
              THEN /\ worklist' = done.sub \o Tail(worklist)
                   /\ UNCHANGED <<pc, pack_result>>
              ELSE /\ worklist' = <<>>
                   /\ pc' = "packed"
                   /\ pack_result' = "err"
    /\ UNCHANGED <<backend, inputs>>
    /\ UNCHANGED unpackVars
    /\ UNCHANGED headerVars
    /\ UNCHANGED cut
    /\ UNCHANGED flagVars
    /\ UNCHANGED readVars
    /\ UNCHANGED disk_ok

\* pack runs on one thread from its call to its return: each step that can
\* be taken is taken
SpecLive ==
    /\ PackLiveInit
    /\ [][NextPack]_vars
    /\ WF_vars(PackBegin) /\ WF_vars(WritePrologue)
    /\ WF_vars(ProcessFileStep) /\ WF_vars(WriteEpilogue)

\* The proper prefixes of a path that end before a separator
DirPrefixes(path) == {SubSeq(path, 1, i - 1) : i \in {j \in 2..Len(path) : path[j] = SEP}}

\* No FilePath of the driver lies below a symlink
NoSymlinkTraversed ==
    \A k \in DOMAIN worklist :
        \A q \in DirPrefixes(worklist[k].system_path) :
            q \in DOMAIN HostFS => HostFS[q].kind # "symlink"

\* Each entry written so far is a SymLink entry exactly when its source is a
\* symlink, and nothing is written below a symlink's archive path
SymlinksAsEntries ==
    \A k \in DOMAIN HeaderWrites :
        /\ k <= Len(SourceEntries)
        /\ HeaderWrites[k].path = SourceEntries[k].archive_path
        /\ (TypeFlagByte(WrittenBlock(HeaderWrites[k])) = FlagByteOf("SymLink"))
              <=> (HostFS[SourceEntries[k].system_path].kind = "symlink")
        /\ \A q \in DirPrefixes(SourceEntries[k].system_path) :
              HostFS[q].kind = "dir"

PackReturned == pc \in {"packed", "unpacking", "done"}

\* C22: pack never follows a symlink: a symlink, also one to a directory or
\* to an ancestor of itself, becomes one SymLink entry and is not
\* traversed, and every pack run comes to its end.
C22_SymlinksNotFollowed ==
    /\ [](NoSymlinkTraversed /\ SymlinksAsEntries)
    /\ [](pack_result = "ok" => Len(HeaderWrites) = Len(SourceEntries))
    /\ <>PackReturned

\* Pack of the directory k, which holds a symlink to itself and a symlink to
\* the directory d, has ended with exactly these two SymLink entries.
C22_Witness ==
    /\ inputs = <<nK>>
    /\ pc = "packed"
    /\ pack_result = "ok"
    /\ Len(HeaderWrites) = 2
    /\ HeaderWrites[1].path = P(nK, nU)
    /\ HeaderWrites[2].path = P(nK, nV)
    /\ \A k \in 1..2 : TypeFlagByte(WrittenBlock(HeaderWrites[k])) = FlagByteOf("SymLink")

\* ------------------------------------------------------------------------
\* read_file_chunked with a file_size that need not be the file's length
\* (src/archive/file.rs 14-52)
\* ------------------------------------------------------------------------

\* The file sizes read_file_chunked is given
FileSizes == {0, 1, 3, 4, 5, 8191, 8192, 8193, 16384, 16385}

ReadInit ==
    /\ backend = "BAG"
    /\ inputs \in {<<p>> : p \in RegularPaths}
    /\ read_size \in FileSizes
    /\ read_out = NoRead
    /\ open_handles = <<>>
    /\ peak = 0
    /\ on_disk = 0
    /\ disk_ok = TRUE
    /\ pc = "read"
    /\ flag_in = "none"
    /\ flag_byte = 0
    /\ flag_out = NoFlag
    /\ hdr = NoHeader
    /\ hblock = NoBlock
    /\ changed = -1
    /\ decoded = NotDecoded
    /\ cut = -1
    /\ worklist = <<>>
    /\ archive = <<>>
    /\ wlog = <<>>
    /\ pack_result = "none"
    /\ pos = 0
    /\ rlog = <<>>
    /\ out_files = NoFiles
    /\ out_dirs = {output_path}
    /\ mlog = <<>>
    /\ unpack_result = "none"

\* One call of read_file_chunked; the callback keeps each chunk
ReadFileChunked ==
    /\ pc = "read"
    /\ read_out' = read_file_chunked(inputs[1], read_size)
    /\ pc' = "read_done"
    /\ UNCHANGED read_size
    /\ UNCHANGED handleVars
    /\ UNCHANGED diskVars
    /\ UNCHANGED <<backend, inputs, worklist, archive, wlog, pack_result, cut>>
    /\ UNCHANGED unpackVars
    /\ UNCHANGED headerVars
    /\ UNCHANGED flagVars

SpecRead == ReadInit /\ [][ReadFileChunked]_vars

RECURSIVE ChunksLen(_, _)
ChunksLen(chunks, k) == IF k = 0 THEN 0 ELSE Len(chunks[k]) + ChunksLen(chunks, k - 1)

\* C23: when read_file_chunked returns success the callback has been given
\* exactly file_size bytes, whatever the length of the source file; when the
\* source has fewer than file_size bytes the call fails.
C23_ExactlyFileSize ==
    pc = "read_done" =>
        /\ read_out.ok => ChunksLen(read_out.chunks, Len(read_out.chunks)) = read_size
        /\ Len(HostFS[inputs[1]].data) < read_size => ~read_out.ok

\* C24: during a pack run at most two file handles are open at any instant,
\* the archive writer and at most one source handle; between two entries,
\* at any depth of the traversal, only the writer is open, and after pack
\* has returned none is.
C24_AtMostTwoHandles ==
    /\ peak <= 2
    /\ pc \in {"prologue", "files"} => open_handles = <<ArchiveHandle>>
    /\ PackReturned => open_handles = <<>>

\* Pack of the tree d, with a file two directories down, has ended and has
\* had the writer and one source open together.
C24_Witness ==
    /\ pc = "packed"
    /\ pack_result = "ok"
    /\ peak = 2
    /\ \E n \in DOMAIN SourceNodes :
          SourceNodes[n].system_path = P(P(nD, nS), nC) /\ SourceNodes[n].kind = "file"
    /\ \E k \in DOMAIN HeaderWrites : HeaderWrites[k].path = P(P(nD, nS), nC)

\* ------------------------------------------------------------------------
\* Pack to an archive file that stops accepting writes
\* ------------------------------------------------------------------------

\* The archive file accepts no write from now on (the disk is full, the
\* file system has gone)
DiskFails ==
    /\ pc \in {"prologue", "files"}
    /\ disk_ok
    /\ disk_ok' = FALSE
    /\ UNCHANGED on_disk
    /\ UNCHANGED <<backend, inputs, pc>>
    /\ UNCHANGED packVars
    /\ UNCHANGED unpackVars
    /\ UNCHANGED headerVars
    /\ UNCHANGED cut
    /\ UNCHANGED flagVars
    /\ UNCHANGED readVars
    /\ UNCHANGED handleVars

NextFlush ==
    \/ PackBegin
    \/ WritePrologue
    \/ ProcessFile
    \/ WriteEpilogue
    \/ DiskFails

SpecFlush == Init /\ [][NextFlush]_vars

\* C25: when pack returns success every byte handed to the archive's writer
\* is in the archive file; a failed write of the buffered rest makes pack
\* return an error.
C25_FlushedBeforeSuccess ==
    pack_result = "ok" => on_disk = Len(archive)

\* ------------------------------------------------------------------------
\* Unpack of an archive that pack did not write
\* ------------------------------------------------------------------------

\* The entry names of the crafted archives: plain, nested, absolute, and
\* with `..` components
CraftedNames ==
    {nF, P(nA, nB), P(P(nA, nB), nC), <<SEP>> \o nX, <<SEP>> \o P(nA, nX),
     P(DOTDOT, nX), P(DOTDOT, P(DOTDOT, nX)), P(nA, P(DOTDOT, nX)),
     P(nA, P(DOTDOT, P(DOTDOT, nX))), P(P(nA, nB), P(DOTDOT, nX)),
     P(DOT, nX), P(nA, DOTDOT), DOTDOT, <<SEP>>}

CraftedPayloads == {<<>>, <<120, 0, 121>>}

\* The bytes of one Regular entry with the given name, file_size field and
\* payload, its header with the right checksum
CraftedEntry(packer, name, size, data) ==
    With([kind |-> "file", len |-> size, mode |-> CreateMode, uid |-> RunUid,
          gid |-> RunGid, ctime |-> Now, mtime |-> Now], LAMBDA metadata :
        IF packer = "BAG"
        THEN With(FileHeader_serialize(FileHeader_new(name, metadata, None)), LAMBDA block :
                block.header \o block.file_name \o data)
        ELSE Header_serialize(Header_new(name, metadata)) \o data)

\* Entries between the prologue and the end marker of the backend
CraftedStream(packer, entries) ==
    IF packer = "BAG"
    THEN GlobalHeader_serialize \o entries \o bag_EOF_MARKER
    ELSE entries \o tar_EOF_MARKER

\* An archive of one Regular entry with the given name and payload
CraftedArchive(packer, name, data) ==
    CraftedStream(packer, CraftedEntry(packer, name, Len(data), data))

CraftedInit ==
    /\ backend \in {"BAG", "TAR"}
    /\ \E name \in CraftedNames, data \in CraftedPayloads :
           archive = CraftedArchive(backend, name, data)
    /\ pc = "packed"
    /\ inputs = <<>>
    /\ worklist = <<>>
    /\ wlog = <<>>
    /\ pack_result = "none"
    /\ pos = 0
    /\ rlog = <<>>
    /\ out_files = NoFiles
    /\ out_dirs = {output_path}
    /\ mlog = <<>>
    /\ unpack_result = "none"
    /\ hdr = NoHeader
    /\ hblock = NoBlock
    /\ changed = -1
    /\ decoded = NotDecoded
    /\ cut = -1
    /\ flag_in = "none"
    /\ flag_byte = 0
    /\ flag_out = NoFlag
    /\ read_size = 0
    /\ read_out = NoRead
    /\ open_handles = <<>>
    /\ peak = 0
    /\ on_disk = 0
    /\ disk_ok = TRUE

NextUnpack ==
    \/ UnpackBegin
    \/ UnpackStep

SpecCrafted == CraftedInit /\ [][NextUnpack]_vars

\* The names a relative path resolves to, from the working directory:
\* `.` stays, `..` leaves the directory entered last; `above` when it leaves
\* the working directory
RECURSIVE Resolve(_, _)
Resolve(comps, k) ==
    IF k = 0 THEN [above |-> FALSE, names |-> <<>>]
    ELSE With(Resolve(comps, k - 1), LAMBDA r :
            IF r.above \/ comps[k][2] = DOT THEN r
            ELSE IF comps[k][2] = DOTDOT
            THEN IF r.names = <<>> THEN [above |-> TRUE, names |-> <<>>]
                 ELSE [r EXCEPT !.names = SubSeq(@, 1, Len(@) - 1)]
            ELSE [r EXCEPT !.names = Append(@, comps[k][2])])

\* The path is output_path or resolves to a place below it
InsideOutDir(path) ==
    /\ ~has_root(path)
    /\ With(Resolve(Components(path), Len(Components(path))), LAMBDA r :
          ~r.above /\ r.names # <<>> /\ r.names[1] = output_path)

\* C26: every directory and file unpack creates or truncates, for any
\* archive, lies inside out_dir.
C26_UnpackStaysInside ==
    /\ \A p \in out_dirs : InsideOutDir(p)
    /\ \A p \in DOMAIN out_files : InsideOutDir(p)
    /\ \A k \in DOMAIN mlog : InsideOutDir(mlog[k])


\* The entry named /x is written to /x, outside out_dir
C26_AbsoluteEscapes ==
    ~((<<SEP>> \o nX) \in DOMAIN out_files)

\* The entry named ../x is written next to out_dir
C26_DotDotEscapes ==
    ~(\E p \in DOMAIN out_files : Resolve(Components(p), Len(Components(p))).names = <<nX>>)


\* C27: the archive paths of the entries emitted in one pack run are pairwise
\* distinct, and unpack never creates-and-truncates a destination an earlier
\* entry of the same archive has written.
C27_DistinctArchivePaths ==
    /\ \A i, j \in DOMAIN WrittenPaths :
          i # j => WrittenPaths[i] # WrittenPaths[j]
    /\ \A i, j \in DOMAIN mlog :
          (i # j /\ mlog[i] \in DOMAIN out_files) => mlog[i] # mlog[j]

\* Two inputs with the same basename in different directories: the second
\* header written carries the archive path of the first
C27_SameBasename ==
    ~(/\ inputs = <<P(nX, nA), P(nY, nA)>>
      /\ Len(WrittenPaths) = 2
      /\ WrittenPaths[1] = nA /\ WrittenPaths[2] = nA)

\* On unpack the second entry replaces the file the first entry made
C27_SecondReplacesFirst ==
    ~(/\ inputs = <<P(nX, nA), P(nY, nA)>>
      /\ unpack_result = "ok"
      /\ mlog = <<Dest(nA), Dest(nA)>>
      /\ out_files[Dest(nA)].data = HostFS[P(nY, nA)].data
      /\ HostFS[P(nX, nA)].data # HostFS[P(nY, nA)].data)


\* C28: unpack of an archive a successful pack run wrote processes exactly
\* as many entries (mlog has one destination per entry processed) as pack
\* emitted; no header block pack emits is all zero.
C28_AllEntriesProcessed ==
    /\ \A k \in DOMAIN HeaderWrites : ~AllZero(WrittenBlock(HeaderWrites[k]))
    /\ (pc = "done" /\ pack_result = "ok") =>
          Len(mlog) = Len(HeaderWrites)

\* Without a symlink among the entries unpack succeeds, and every header read
\* is at the start of a header write or of the epilogue
C28_WithoutSymlinks ==
    (pack_result = "ok" /\ NoSymlinkPacked) =>
        /\ \A k \in DOMAIN rlog :
              rlog[k].kind = "header" =>
                  \E j \in DOMAIN wlog :
                      /\ wlog[j].kind \in {"header", "epilogue"}
                      /\ wlog[j].off = rlog[k].off
        /\ pc = "done" =>
              /\ unpack_result = "ok"
              /\ Len(mlog) = Len(HeaderWrites)

\* The file of 1024 zero bytes, packed before another file, has not ended
\* the header loop: both entries were processed
C28_ZeroPayload ==
    ~(/\ inputs = <<nW, nF>>
      /\ pc = "done"
      /\ unpack_result = "ok"
      /\ Len(mlog) = 2
      /\ out_files[Dest(nW)].data = Zeros(1024))

\* A TAR archive with a symlink entry before another entry: unpack stops
\* with an error after the first entry
C28_TarSymlink ==
    ~(/\ backend = "TAR"
      /\ inputs = <<nL, nF>>
      /\ pack_result = "ok"
      /\ Len(HeaderWrites) = 2
      /\ pc = "done"
      /\ unpack_result = "err"
      /\ Len(mlog) < 2)


\* ------------------------------------------------------------------------
\* Unpack of any finite byte stream
\* ------------------------------------------------------------------------

\* The lengths a stream is cut to: around the header blocks of both backends,
\* inside names and payloads, around the first chunk of a long payload
StreamCuts(len) ==
    {n \in {0, 1, 63, 64, 65, 100, 127, 128, 129, 131, 132, 195, 200, 511, 512, 513,
            515, 600, 1024, 1027, 1539, 8191, 8192, 8320, 8321, 8322, 8703, 8704,
            8705, len - 64, len - 1, len} : n >= 0 /\ n <= len}

Prefixes(stream) == {SubSeq(stream, 1, n) : n \in StreamCuts(Len(stream))}

\* Byte streams handed to unpack: archives of entries whose file_size field
\* is right or larger than what follows, whole or cut short, blocks of zero
\* bytes, and bytes that are no archive
Streams(packer) ==
    LET small == CraftedEntry(packer, nF, 3, <<120, 0, 121>>)
        empty == CraftedEntry(packer, P(nA, nB), 0, <<>>)
        short == CraftedEntry(packer, nF, 20000, <<1, 2, 3>>)
        big   == CraftedEntry(packer, nH, 8193, Pattern(8193, 5, 251))
    IN  UNION {Prefixes(CraftedStream(packer, entries)) :
                  entries \in {<<>>, small, small \o empty, empty \o small \o small,
                               short, big, small \o big}}
        \cup {Zeros(n) : n \in {64, 512, 2000}}
        \cup {Pattern(700, 7, 1)}

StreamInit ==
    /\ backend \in {"BAG", "TAR"}
    /\ archive \in Streams(backend)
    /\ pc = "packed"
    /\ inputs = <<>>
    /\ worklist = <<>>
    /\ wlog = <<>>
    /\ pack_result = "none"
    /\ pos = 0
    /\ rlog = <<>>
    /\ out_files = NoFiles
    /\ out_dirs = {output_path}
    /\ mlog = <<>>
    /\ unpack_result = "none"
    /\ hdr = NoHeader
    /\ hblock = NoBlock
    /\ changed = -1
    /\ decoded = NotDecoded
    /\ cut = -1
    /\ flag_in = "none"
    /\ flag_byte = 0
    /\ flag_out = NoFlag
    /\ read_size = 0
    /\ read_out = NoRead
    /\ open_handles = <<>>
    /\ peak = 0
    /\ on_disk = 0
    /\ disk_ok = TRUE

\* unpack is one sequential call: once started it takes its next step
SpecStreams ==
    StreamInit /\ [][NextUnpack]_vars /\ WF_vars(UnpackBegin) /\ WF_vars(UnpackStep)

\* A turn of the header loop ends unpack or leaves the reader at least one
\* header block further
HeaderLoopConsumes ==
    UnpackStep => (pc' = "done" \/ pos' >= pos + header_block_size(backend))

\* The reads of a payload loop: each after the first follows a whole chunk
\* and asks for 1 to READ_BUFFER_SIZE bytes, so the bytes remaining decrease
PayloadLoopDecreases ==
    \A k \in DOMAIN rlog :
        (k > 1 /\ rlog[k].kind = "payload" /\ rlog[k - 1].kind = "payload") =>
            /\ rlog[k - 1].ok
            /\ rlog[k - 1].len = READ_BUFFER_SIZE
            /\ rlog[k].off = rlog[k - 1].off + READ_BUFFER_SIZE
            /\ rlog[k].len >= 1 /\ rlog[k].len <= READ_BUFFER_SIZE

\* The reader never moves back and never passes the end of the stream
ReaderBounded == pos >= 0 /\ pos <= Len(archive)

UnpackReturned ==
    /\ pc = "done"
    /\ unpack_result \in {"ok", "err"}
    /\ unpack_result = "ok" =>
          /\ rlog # <<>>
          /\ rlog[Len(rlog)].kind = "header"
          /\ is_eoa(backend, ReadBytes(rlog[Len(rlog)]))

\* C29: for every finite byte stream unpack terminates, with success at an
\* end-of-archive block or with an error; every turn of the header loop
\* consumes at least header_block_size() bytes and every payload loop
\* strictly decreases the bytes remaining.
C29_UnpackTerminates ==
    /\ [][HeaderLoopConsumes]_vars
    /\ [](PayloadLoopDecreases /\ ReaderBounded)
    /\ [](pc = "done" => UnpackReturned)
    /\ <>UnpackReturned

\* Unpack of a stream that ends inside a long payload has returned an error
\* after its payload loop read one whole chunk and failed on the next read.
C29_Witness ==
    /\ pc = "done"
    /\ unpack_result = "err"
    /\ Len(rlog) >= 2
    /\ rlog[Len(rlog)].kind = "payload" /\ ~rlog[Len(rlog)].ok
    /\ rlog[Len(rlog) - 1].kind = "payload" /\ rlog[Len(rlog) - 1].ok
    /\ rlog[Len(rlog) - 1].len = READ_BUFFER_SIZE


\* ------------------------------------------------------------------------
\* Unpack of an archive with an entry header that cannot be decoded
\* ------------------------------------------------------------------------

\* A header block with the type flag byte replaced, and the checksum of the
\* result stored right or one too large
ForgedBlock(packer, block, flag, right) ==
    LET Stored(sum) == IF right THEN sum ELSE [sum EXCEPT !.lo = (@ + 1) % 65536]
    IN  IF packer = "BAG"
        THEN With([FileHeaderLL_from_bytes(block).ll EXCEPT !.type_flag = flag], LAMBDA ll :
             With(FileHeaderLL_set_checksum(ll, ZeroChecksum), LAMBDA ll0 :
                FileHeaderLL_serialize(FileHeaderLL_set_checksum(ll0,
                    Stored(FileHeaderLL_calculate_checksum(ll0)))).header))
        ELSE With([HeaderLL_from_bytes(block).ll EXCEPT !.type_flag = flag], LAMBDA ll :
             With(HeaderLL_set_checksum(ll, ZeroChecksum), LAMBDA ll0 :
                HeaderLL_serialize(HeaderLL_set_checksum(ll0,
                    Stored(HeaderLL_calculate_checksum(ll0))))))

\* An entry whose header block is forged
ForgedEntry(packer, name, data, flag, right) ==
    With(CraftedEntry(packer, name, Len(data), data), LAMBDA entry :
    With(header_block_size(packer), LAMBDA hbs :
        ForgedBlock(packer, SubSeq(entry, 1, hbs), flag, right)
            \o SubSeq(entry, hbs + 1, Len(entry))))

\* The type flag bytes of forged headers: Regular, and a byte that is no flag
ForgedFlags == {bag_type_flag_as_u8("Regular"), 7}

\* Archives whose first, second or third entry has a forged header, with
\* entries before and after it; the forged entry has the name of the first,
\* or a name in a directory of its own
CorruptStreams(packer) ==
    LET first  == CraftedEntry(packer, nF, 3, <<120, 0, 121>>)
        second == CraftedEntry(packer, P(nA, nB), 2, <<66, 66>>)
    IN  {CraftedStream(packer, before \o ForgedEntry(packer, name, <<1, 2>>, flag, right)
                                    \o after) :
            before \in {<<>>, first, first \o second},
            after \in {<<>>, second},
            name \in {nF, P(nX, nA)},
            flag \in ForgedFlags,
            right \in BOOLEAN}
        \cup {SubSeq(CraftedStream(packer, first \o second), 1, n) :
                n \in {Len(first) + header_block_size(packer) + 65,
                       Len(first) + header_block_size(packer) + 66}}

CorruptInit ==
    /\ backend \in {"BAG", "TAR"}
    /\ archive \in CorruptStreams(backend)
    /\ pc = "packed"
    /\ inputs = <<>>
    /\ worklist = <<>>
    /\ wlog = <<>>
    /\ pack_result = "none"
    /\ pos = 0
    /\ rlog = <<>>
    /\ out_files = NoFiles
    /\ out_dirs = {output_path}
    /\ mlog = <<>>
    /\ unpack_result = "none"
    /\ hdr = NoHeader
    /\ hblock = NoBlock
    /\ changed = -1
    /\ decoded = NotDecoded
    /\ cut = -1
    /\ flag_in = "none"
    /\ flag_byte = 0
    /\ flag_out = NoFlag
    /\ read_size = 0
    /\ read_out = NoRead
    /\ open_handles = <<>>
    /\ peak = 0
    /\ on_disk = 0
    /\ disk_ok = TRUE

SpecCorrupt == CorruptInit /\ [][NextUnpack]_vars

\* The header block at the reader is an entry's and its decoding fails: in
\* deserialize, or in the read of the name bytes
HeaderDecodeFails ==
    With(read_exact(archive, pos, header_block_size(backend)), LAMBDA r :
        /\ r.ok
        /\ ~is_eoa(backend, r.bytes)
        /\ ~unpack_header(backend, archive, r.pos, r.bytes).ok)

\* A turn of the header loop whose header does not decode ends unpack with
\* an error and changes neither the files nor the directories
FailureHasNoEffect ==
    (UnpackStep /\ HeaderDecodeFails) =>
        /\ pc' = "done" /\ unpack_result' = "err"
        /\ out_files' = out_files /\ out_dirs' = out_dirs /\ mlog' = mlog

\* After unpack has returned nothing is created or changed
NothingAfterReturn ==
    pc = "done" => UNCHANGED <<out_files, out_dirs, mlog, pos, rlog>>

\* A header block read with a checksum that does not match is reported as a
\* checksum error whatever its type flag byte, and is the last read of the run
ChecksumFirst ==
    \A k \in DOMAIN rlog :
        (rlog[k].kind = "header" /\ rlog[k].ok /\ ~AllZero(ReadBytes(rlog[k]))) =>
            With(deserialize_header(backend, ReadBytes(rlog[k])), LAMBDA d :
                d.stored_checksum # d.calc_checksum =>
                    /\ d.err = "checksum"
                    /\ k = Len(rlog)
                    /\ unpack_result = "err")

\* C30: when the header of entry k does not decode, unpack stops at once,
\* creates no directory and no file for entry k or a later entry and leaves
\* the files of the entries before it as they are; the checksum is compared
\* before the type flag is interpreted and before name bytes are read.
C30_HeaderFailureStops ==
    /\ [][FailureHasNoEffect]_vars
    /\ [][NothingAfterReturn]_vars
    /\ []ChecksumFirst

\* Unpack has returned an error at a third entry whose header has a wrong
\* checksum and a byte that is no type flag; the two entries before it are
\* materialised, the first with its own payload although the third has its
\* name, and the directory of the entry after it does not exist.
C30_Witness ==
    /\ pc = "done"
    /\ unpack_result = "err"
    /\ mlog = <<Dest(nF), Dest(P(nA, nB))>>
    /\ out_files[Dest(nF)].data = <<120, 0, 121>>
    /\ out_dirs = {output_path, Dest(nA)}
    /\ rlog[Len(rlog)].kind = "header"
    /\ With(deserialize_header(backend, ReadBytes(rlog[Len(rlog)])), LAMBDA d :
          /\ d.stored_checksum # d.calc_checksum
          /\ ~(IF backend = "BAG"
               THEN bag_TypeFlag_from_byte(ReadBytes(rlog[Len(rlog)])[44 + 1]).ok
               ELSE tar_TypeFlag_from_byte(ReadBytes(rlog[Len(rlog)])[156 + 1]).ok))

\* Unpack has returned an error at an entry whose checksum matches and whose
\* type flag byte is no flag
C30_TypeFlagError ==
    ~(/\ pc = "done" /\ unpack_result = "err"
      /\ rlog[Len(rlog)].kind = "header"
      /\ deserialize_header(backend, ReadBytes(rlog[Len(rlog)])).err = "typeflag")

\* Unpack has returned an error at the read of the name of a BAG entry
C30_NameReadError ==
    ~(/\ pc = "done" /\ unpack_result = "err"
      /\ rlog[Len(rlog)].kind = "name" /\ ~rlog[Len(rlog)].ok
      /\ Len(mlog) = 1)

====
